---- MODULE Spec2Model ----
(***************************************************************************)
(* State-machine model of the data structures of src/ds.  One object is    *)
(* constructed (the Init of its specification) and then driven by an       *)
(* arbitrary sequence of calls of its methods.  A call that raises leaves  *)
(* the object as the statements executed so far left it and records the    *)
(* exception in exc; an uncaught exception ends the run.                   *)
(*                                                                         *)
(*   Spec       src/ds/cache.py   LRUCache, LFUCache                       *)
(*   SpecDeque  src/ds/deque.py   Deque                                    *)
(*   SpecHeap   src/ds/heaps.py   MinHeap, MaxHeap                         *)
(*   SpecBIT    src/ds/binary_indexed_tree.py   BinaryIndexedTree          *)
(*   SpecSeg    src/ds/segment_tree.py   SegmentTree                       *)
(*   SpecDS     src/ds/disjoint_sets.py   DisjointSets                     *)
(*   SpecTrie   src/ds/trie.py   Trie                                      *)
(*   SpecLL     src/ds/linked_list.py   LinkedList, DoublyLinkedList       *)
(*   SpecBST    src/ds/binary_search_tree.py   BinarySearchTree            *)
(***************************************************************************)
EXTENDS Integers, Sequences, FiniteSets, TLC

(* ---- bounds of the model ---- *)
LRU_NKeys == 4   \* an LRUCache is given the keys 1..LRU_NKeys
LRU_MaxCap == 3  \* and is constructed with a capacity in -1..LRU_MaxCap
LFU_NKeys == 3   \* an LFUCache is given the keys 1..LFU_NKeys
LFU_MaxCap == 2  \* and is constructed with a capacity in -1..LFU_MaxCap
NVals == 2       \* values are 1..NVals
MaxFreq == 3     \* a usage count is not raised above MaxFreq

LRU_Keys == 1..LRU_NKeys
LFU_Keys == 1..LFU_NKeys
Vals == 1..NVals
Capacities(c) == (0 - 1)..(IF c = "LRUCache" THEN LRU_MaxCap ELSE LFU_MaxCap)

(* Python's None; node references, keys, values and usage counts are all   *)
(* positive integers, so 0 is distinct from every one of them.             *)
None == 0

VARIABLES
    cls,        \* the class of the object, "LRUCache", "LFUCache", "Deque", ...
    capacity,   \* self.capacity
    dict,       \* self.dict: key -> <<value, node>> (LRU), <<value, usage_count>> (LFU)
    head,       \* LRUCache.head: node reference or None
    tail,       \* LRUCache.tail: node reference or None
    nodes,      \* the ListNode objects alive: reference -> [val, prev_, next_]
    freq_dict,  \* LFUCache.freq_dict: usage_count -> sequence of keys (OrderedDict order)
    min_freq,   \* LFUCache.min_freq
    ret,        \* what the last call returned
    exc,        \* "none", or the exception the last call raised
    last,       \* the last call: [op, key, value, hit, full, was]
    recency,    \* history: the stored keys, least recently accessed first
    deque,      \* the Deque object: [k, n, head, tail, nodes]
    heap,       \* MinHeap.heap / MaxHeap.heap: the list, as a sequence
    bit,        \* the BinaryIndexedTree object: [arr, binary_idx_tree]
    seg,        \* the SegmentTree object: [eval_func, arr, n, seg_tree, nodes]
    djs,        \* the DisjointSets object: [parent, rank, n_sets, n]
    trie,       \* the Trie object
    llist,      \* the LinkedList / DoublyLinkedList object
    bst,        \* the BinarySearchTree object
    ref         \* history: the reference value the object is compared with

vars == <<cls, capacity, dict, head, tail, nodes, freq_dict, min_freq, ret, exc, last, recency,
          deque, heap, bit, seg, djs, trie, llist, bst, ref>>

(* The fields of the cache classes, and the objects of the other classes.  *)
cache_fields == <<capacity, dict, head, tail, nodes, freq_dict, min_freq, recency>>

others == <<deque, heap, bit, seg, djs, trie, llist, bst, ref>>

(* The objects of the classes of disjoint_sets.py, trie.py, linked_list.py *)
(* and binary_search_tree.py.                                              *)
later == <<djs, trie, llist, bst>>

NoLater == djs = None /\ trie = None /\ llist = None /\ bst = None

(* ---- helpers for dictionaries and sequences ---- *)
DelKey(f, k) == [x \in DOMAIN f \ {k} |-> f[x]]

SetKey(f, k, v) == [x \in DOMAIN f \cup {k} |-> IF x = k THEN v ELSE f[x]]

Range(q) == {q[i] : i \in DOMAIN q}

SeqWithout(q, k) == SelectSeq(q, LAMBDA x : x # k)

PosIn(q, k) == CHOOSE i \in DOMAIN q : q[i] = k

SetMin(S) == CHOOSE m \in S : \A x \in S : m <= x

(* The object as one record, so that a method is a function of the object. *)
Self ==
    [dict |-> dict, head |-> head, tail |-> tail, nodes |-> nodes,
     freq_dict |-> freq_dict, min_freq |-> min_freq, ret |-> None, exc |-> "none"]

Raise(s, e) == [s EXCEPT !.exc = e]

Return(s, v) == IF s.exc = "none" THEN [s EXCEPT !.ret = v] ELSE s

(* ListNode(...) creates an object with a reference no live object has.    *)
(* References are only ever compared for identity, so which free one is    *)
(* taken is immaterial; the node made for a key takes the number of the    *)
(* key when that is free, and the smallest free number otherwise.          *)
NewRef(s, key) ==
    IF key \notin DOMAIN s.nodes THEN key
    ELSE CHOOSE n \in 1..(Cardinality(DOMAIN s.nodes) + 1) :
            /\ n \notin DOMAIN s.nodes
            /\ \A m \in 1..(n - 1) : m \in DOMAIN s.nodes

ListNode(val, prev_, next_) == [val |-> val, prev_ |-> prev_, next_ |-> next_]

(* References reachable from the object: head, tail, the index, and the    *)
(* prev_/next_ fields of reachable nodes.                                  *)
RECURSIVE Reach(_, _)
Reach(s, R) ==
    LET more == {s.nodes[n].prev_ : n \in R} \cup {s.nodes[n].next_ : n \in R}
        R2 == (R \cup more) \cap DOMAIN s.nodes
    IN IF R2 = R THEN R ELSE Reach(s, R2)

Roots(s) == ({s.head, s.tail} \cup {s.dict[k][2] : k \in DOMAIN s.dict}) \cap DOMAIN s.nodes

(* Reference counting frees a ListNode nothing refers to any more.         *)
Collect(s) ==
    LET live == Reach(s, Roots(s))
    IN [s EXCEPT !.nodes = [n \in live |-> s.nodes[n]]]

(* ---- LRUCache ---- *)

(* A mutation of LRUCache_update_usage: no early return for a node that is *)
(* already the tail.                                                       *)
LRUCache_update_usage_no_tail_case(s, key) ==
    LET node_pointer == s.dict[key][2]
        s1 ==
          IF node_pointer = s.head
          THEN LET h == s.nodes[s.head].next_
               IN IF h = None
                  THEN Raise([s EXCEPT !.head = None], "AttributeError")
                  ELSE [s EXCEPT !.head = h, !.nodes[h].prev_ = None]
          ELSE LET p == s.nodes[node_pointer].prev_
                   n == s.nodes[node_pointer].next_
               IN IF p = None THEN Raise(s, "AttributeError")
                  ELSE IF n = None
                  THEN Raise([s EXCEPT !.nodes[p].next_ = n], "AttributeError")
                  ELSE [s EXCEPT !.nodes[p].next_ = n, !.nodes[n].prev_ = p]
    IN IF s1.exc # "none" THEN s1
       ELSE IF s1.tail = None THEN Raise(s1, "AttributeError")
       ELSE LET t == s1.tail
            IN [s1 EXCEPT !.nodes[t].next_ = node_pointer,
                          !.nodes[node_pointer].prev_ = t,
                          !.tail = node_pointer,
                          !.nodes[node_pointer].next_ = None]

(* A mutation of LRUCache_update_usage: the head node is handled like an   *)
(* interior node.                                                          *)
LRUCache_update_usage_no_head_case(s, key) ==
    LET node_pointer == s.dict[key][2]
    IN IF node_pointer = s.tail THEN s
       ELSE
         LET p == s.nodes[node_pointer].prev_
             n == s.nodes[node_pointer].next_
             s1 == IF p = None THEN Raise(s, "AttributeError")
                   ELSE IF n = None
                   THEN Raise([s EXCEPT !.nodes[p].next_ = n], "AttributeError")
                   ELSE [s EXCEPT !.nodes[p].next_ = n, !.nodes[n].prev_ = p]
         IN IF s1.exc # "none" THEN s1
            ELSE IF s1.tail = None THEN Raise(s1, "AttributeError")
            ELSE LET t == s1.tail
                 IN [s1 EXCEPT !.nodes[t].next_ = node_pointer,
                               !.nodes[node_pointer].prev_ = t,
                               !.tail = node_pointer,
                               !.nodes[node_pointer].next_ = None]

LRUCache_update_usage(s, key) ==
    LET node_pointer == s.dict[key][2]
    IN IF node_pointer = s.tail THEN s
       ELSE
         LET s1 ==
               IF node_pointer = s.head
               THEN LET h == s.nodes[s.head].next_
                    IN IF h = None
                       THEN Raise([s EXCEPT !.head = None], "AttributeError")
                       ELSE [s EXCEPT !.head = h, !.nodes[h].prev_ = None]
               ELSE LET p == s.nodes[node_pointer].prev_
                        n == s.nodes[node_pointer].next_
                    IN IF p = None THEN Raise(s, "AttributeError")
                       ELSE IF n = None
                       THEN Raise([s EXCEPT !.nodes[p].next_ = n], "AttributeError")
                       ELSE [s EXCEPT !.nodes[p].next_ = n, !.nodes[n].prev_ = p]
         IN IF s1.exc # "none" THEN s1
            ELSE IF s1.tail = None THEN Raise(s1, "AttributeError")
            ELSE LET t == s1.tail
                 IN [s1 EXCEPT !.nodes[t].next_ = node_pointer,
                               !.nodes[node_pointer].prev_ = t,
                               !.tail = node_pointer,
                               !.nodes[node_pointer].next_ = None]

(* A mutation of LRUCache_get: the usage order is updated with the key of  *)
(* the head node, not with the key looked up.                              *)
LRUCache_get_update_head(s, key) ==
    LET e == IF key \in DOMAIN s.dict THEN s.dict[key] ELSE <<None, None>>
        val == e[1]
        node == e[2]
        s1 == IF node # None THEN LRUCache_update_usage(s, s.nodes[s.head].val) ELSE s
    IN Return(s1, val)

(* A mutation of LRUCache_get: a hit does not update the usage order.      *)
LRUCache_get_no_update(s, key) ==
    LET e == IF key \in DOMAIN s.dict THEN s.dict[key] ELSE <<None, None>>
    IN Return(s, e[1])

LRUCache_get(s, key) ==
    LET e == IF key \in DOMAIN s.dict THEN s.dict[key] ELSE <<None, None>>
        val == e[1]
        node == e[2]
        s1 == IF node # None THEN LRUCache_update_usage(s, key) ELSE s
    IN Return(s1, val)

(* A mutation of LRUCache_add: the index entry gets the old tail, not the  *)
(* new node.                                                               *)
LRUCache_add_old_tail(s, key, value) ==
    LET r == NewRef(s, key)
        s1 == IF s.tail = None
              THEN [s EXCEPT !.nodes = SetKey(s.nodes, r, ListNode(key, None, None)),
                             !.head = r, !.tail = r]
              ELSE [s EXCEPT !.nodes = SetKey([s.nodes EXCEPT ![s.tail].next_ = r],
                                              r, ListNode(key, s.tail, None)),
                             !.tail = r]
    IN [s1 EXCEPT !.dict = SetKey(s1.dict, key,
                                  <<value, IF s.tail = None THEN s1.tail ELSE s.tail>>)]

(* A mutation of LRUCache_add: prev_ of the new node is left None.         *)
LRUCache_add_no_prev(s, key, value) ==
    LET r == NewRef(s, key)
        s1 == IF s.tail = None
              THEN [s EXCEPT !.nodes = SetKey(s.nodes, r, ListNode(key, None, None)),
                             !.head = r, !.tail = r]
              ELSE [s EXCEPT !.nodes = SetKey([s.nodes EXCEPT ![s.tail].next_ = r],
                                              r, ListNode(key, None, None)),
                             !.tail = r]
    IN [s1 EXCEPT !.dict = SetKey(s1.dict, key, <<value, s1.tail>>)]

(* put, key absent: lines 100-107, the new node becomes the tail and is    *)
(* entered in the index.                                                   *)
LRUCache_add(s, key, value) ==
    LET r == NewRef(s, key)
        s1 == IF s.tail = None
              THEN [s EXCEPT !.nodes = SetKey(s.nodes, r, ListNode(key, None, None)),
                             !.head = r, !.tail = r]
              ELSE [s EXCEPT !.nodes = SetKey([s.nodes EXCEPT ![s.tail].next_ = r],
                                              r, ListNode(key, s.tail, None)),
                             !.tail = r]
    IN [s1 EXCEPT !.dict = SetKey(s1.dict, key, <<value, s1.tail>>)]

(* A mutation of LRUCache_drop: prev_ of the new head is not cleared.       *)
LRUCache_drop_keep_prev(s) ==
    IF s.head = None THEN Raise(s, "AttributeError")
    ELSE LET drop_key == s.nodes[s.head].val
             h == s.nodes[s.head].next_
         IN IF h = None THEN Raise([s EXCEPT !.head = None], "AttributeError")
            ELSE IF drop_key \notin DOMAIN s.dict
            THEN Raise([s EXCEPT !.head = h], "KeyError")
            ELSE [s EXCEPT !.head = h, !.dict = DelKey(s.dict, drop_key)]

(* A mutation of LRUCache_drop: the index entry of the dropped key stays.  *)
LRUCache_drop_keep_entry(s) ==
    IF s.head = None THEN Raise(s, "AttributeError")
    ELSE LET h == s.nodes[s.head].next_
         IN IF h = None THEN Raise([s EXCEPT !.head = None], "AttributeError")
            ELSE [s EXCEPT !.head = h, !.nodes[h].prev_ = None]

(* put, over capacity: lines 112-117, the head node is dropped.            *)
LRUCache_drop(s) ==
    IF s.head = None THEN Raise(s, "AttributeError")
    ELSE LET drop_key == s.nodes[s.head].val
             h == s.nodes[s.head].next_
         IN IF h = None THEN Raise([s EXCEPT !.head = None], "AttributeError")
            ELSE IF drop_key \notin DOMAIN s.dict
            THEN Raise([s EXCEPT !.head = h, !.nodes[h].prev_ = None], "KeyError")
            ELSE [s EXCEPT !.head = h, !.nodes[h].prev_ = None,
                           !.dict = DelKey(s.dict, drop_key)]

(* A mutation of LRUCache_put: a put of a stored key does not update the   *)
(* usage order.                                                            *)
LRUCache_put_no_update(s, key, value) ==
    IF key \in DOMAIN s.dict
    THEN Return([s EXCEPT !.dict[key][1] = value], None)
    ELSE LET s1 == LRUCache_add(s, key, value)
         IN IF Cardinality(DOMAIN s1.dict) > capacity
            THEN Return(LRUCache_drop(s1), None)
            ELSE Return(s1, None)

(* A mutation of LRUCache_put: the value of a stored key is not            *)
(* overwritten.                                                            *)
LRUCache_put_no_overwrite(s, key, value) ==
    IF key \in DOMAIN s.dict
    THEN Return(LRUCache_update_usage(s, key), None)
    ELSE LET s1 == LRUCache_add(s, key, value)
         IN IF Cardinality(DOMAIN s1.dict) > capacity
            THEN Return(LRUCache_drop(s1), None)
            ELSE Return(s1, None)

(* A mutation of LRUCache_put: the eviction starts one key early.          *)
LRUCache_put_evict_early(s, key, value) ==
    IF key \in DOMAIN s.dict
    THEN Return(LRUCache_update_usage([s EXCEPT !.dict[key][1] = value], key), None)
    ELSE LET s1 == LRUCache_add(s, key, value)
         IN IF Cardinality(DOMAIN s1.dict) >= capacity
            THEN Return(LRUCache_drop(s1), None)
            ELSE Return(s1, None)

LRUCache_put(s, key, value) ==
    IF key \in DOMAIN s.dict
    THEN Return(LRUCache_update_usage([s EXCEPT !.dict[key][1] = value], key), None)
    ELSE LET s1 == LRUCache_add(s, key, value)
         IN IF Cardinality(DOMAIN s1.dict) > capacity
            THEN Return(LRUCache_drop(s1), None)
            ELSE Return(s1, None)

(* ---- LFUCache ---- *)

(* self.freq_dict[f] on a defaultdict(OrderedDict): a missing bucket is    *)
(* created empty by the lookup.                                            *)
Bucket(s, f) ==
    IF f \in DOMAIN s.freq_dict THEN s
    ELSE [s EXCEPT !.freq_dict = SetKey(s.freq_dict, f, <<>>)]

(* A mutation of BucketDel: the key is looked up but not deleted.          *)
BucketDel_keep(s, f, key) ==
    LET s1 == Bucket(s, f)
    IN IF key \notin Range(s1.freq_dict[f]) THEN Raise(s1, "KeyError") ELSE s1

(* del self.freq_dict[f][key] *)
BucketDel(s, f, key) ==
    LET s1 == Bucket(s, f)
    IN IF key \notin Range(s1.freq_dict[f]) THEN Raise(s1, "KeyError")
       ELSE [s1 EXCEPT !.freq_dict[f] = SeqWithout(@, key)]

(* A mutation of BucketAdd: a new key is put at the front of the bucket.    *)
BucketAdd_front(s, f, key) ==
    LET s1 == Bucket(s, f)
    IN IF key \in Range(s1.freq_dict[f]) THEN s1
       ELSE [s1 EXCEPT !.freq_dict[f] = <<key>> \o @]

(* self.freq_dict[f][key] = None: a new key of an OrderedDict goes to the  *)
(* end, an existing one keeps its place.                                   *)
BucketAdd(s, f, key) ==
    LET s1 == Bucket(s, f)
    IN IF key \in Range(s1.freq_dict[f]) THEN s1
       ELSE [s1 EXCEPT !.freq_dict[f] = Append(@, key)]

(* A mutation of BucketDropIfEmpty: a bucket that has become empty is      *)
(* left in freq_dict.                                                      *)
BucketDropIfEmpty_keep(s, f) == Bucket(s, f)

(* if len(self.freq_dict[f]) == 0: del self.freq_dict[f] *)
BucketDropIfEmpty(s, f) ==
    LET s1 == Bucket(s, f)
    IN IF Len(s1.freq_dict[f]) = 0
       THEN [s1 EXCEPT !.freq_dict = DelKey(@, f)]
       ELSE s1

(* A mutation of AdvanceMinFreq: min_freq is left behind when its bucket   *)
(* is deleted.                                                             *)
AdvanceMinFreq_stale(s, usage_count) == s

(* if self.min_freq == usage_count: self.min_freq += 1 *)
AdvanceMinFreq(s, usage_count) ==
    IF s.min_freq = usage_count THEN [s EXCEPT !.min_freq = @ + 1] ELSE s

(* A mutation of LFUCache_incriment_usage_count: the usage count in the    *)
(* index is not updated.                                                   *)
LFUCache_incriment_usage_count_index_stale(s, key) ==
    IF key \notin DOMAIN s.dict THEN Raise(s, "KeyError")
    ELSE
      LET usage_count == s.dict[key][2]
          s1 == BucketDel(s, usage_count, key)
          s2 == Bucket(s1, usage_count)
          s3 == IF Len(s2.freq_dict[usage_count]) = 0
                THEN AdvanceMinFreq([s2 EXCEPT !.freq_dict = DelKey(@, usage_count)],
                                    usage_count)
                ELSE s2
          new_usage_count == usage_count + 1
          s4 == BucketAdd(s3, new_usage_count, key)
      IN IF s1.exc # "none" THEN s1 ELSE s4

LFUCache_incriment_usage_count(s, key) ==
    IF key \notin DOMAIN s.dict THEN Raise(s, "KeyError")
    ELSE
      LET usage_count == s.dict[key][2]
          s1 == BucketDel(s, usage_count, key)
          s2 == Bucket(s1, usage_count)
          s3 == IF Len(s2.freq_dict[usage_count]) = 0
                THEN AdvanceMinFreq([s2 EXCEPT !.freq_dict = DelKey(@, usage_count)],
                                    usage_count)
                ELSE s2
          new_usage_count == usage_count + 1
          s4 == BucketAdd(s3, new_usage_count, key)
      IN IF s1.exc # "none" THEN s1
         ELSE [s4 EXCEPT !.dict[key][2] = new_usage_count]

(* A mutation of LFUCache_get: the bucket of the usage count is looked up  *)
(* before the test for a miss, which creates a bucket on a miss.           *)
LFUCache_get_lookup_first(s, key) ==
    LET e == IF key \in DOMAIN s.dict THEN s.dict[key] ELSE <<None, None>>
        val == e[1]
        usage_count == e[2]
        s0 == Bucket(s, usage_count)
        s1 == IF usage_count # None THEN LFUCache_incriment_usage_count(s0, key) ELSE s0
    IN Return(s1, val)

LFUCache_get(s, key) ==
    LET e == IF key \in DOMAIN s.dict THEN s.dict[key] ELSE <<None, None>>
        val == e[1]
        usage_count == e[2]
        s1 == IF usage_count # None THEN LFUCache_incriment_usage_count(s, key) ELSE s
    IN Return(s1, val)

(* A mutation of LFUCache_add: the usage count of a new key starts at 0.    *)
LFUCache_add_count_zero(s, key, value) ==
    BucketAdd([s EXCEPT !.dict = SetKey(@, key, <<value, 0>>)], 1, key)

(* put, key absent: lines 205-206, the key enters the index with usage     *)
(* count 1 and goes to the end of bucket 1.                                *)
LFUCache_add(s, key, value) ==
    BucketAdd([s EXCEPT !.dict = SetKey(@, key, <<value, 1>>)], 1, key)

(* A mutation of FirstKey: the last key of the bucket is taken.            *)
FirstKey_last(bucket, key) == IF Len(bucket) > 0 THEN bucket[Len(bucket)] ELSE key

(* for key in bucket: break -- the loop variable is the parameter key of   *)
(* put, which keeps its value when the bucket is empty.                    *)
FirstKey(bucket, key) == IF Len(bucket) > 0 THEN Head(bucket) ELSE key

(* A mutation of LFUCache_drop: the key dropped from its bucket is left in *)
(* the index.                                                              *)
LFUCache_drop_keep_entry(s, key) ==
    LET s1 == Bucket(s, s.min_freq)
        drop_key == FirstKey(s1.freq_dict[s1.min_freq], key)
        s2 == BucketDel(s1, s1.min_freq, drop_key)
        s3 == BucketDropIfEmpty(s2, s2.min_freq)
    IN IF s2.exc # "none" THEN s2
       ELSE IF drop_key \notin DOMAIN s3.dict THEN Raise(s3, "KeyError")
       ELSE s3

(* A mutation of LFUCache_drop: the victim is taken from bucket 1, not     *)
(* from the bucket of min_freq.                                            *)
LFUCache_drop_bucket_one(s, key) ==
    LET s1 == Bucket(s, 1)
        drop_key == FirstKey(s1.freq_dict[1], key)
        s2 == BucketDel(s1, 1, drop_key)
        s3 == BucketDropIfEmpty(s2, 1)
    IN IF s2.exc # "none" THEN s2
       ELSE IF drop_key \notin DOMAIN s3.dict THEN Raise(s3, "KeyError")
       ELSE [s3 EXCEPT !.dict = DelKey(@, drop_key)]

(* put, over capacity: lines 212-220.                                      *)
LFUCache_drop(s, key) ==
    LET s1 == Bucket(s, s.min_freq)
        drop_key == FirstKey(s1.freq_dict[s1.min_freq], key)
        s2 == BucketDel(s1, s1.min_freq, drop_key)
        s3 == BucketDropIfEmpty(s2, s2.min_freq)
    IN IF s2.exc # "none" THEN s2
       ELSE IF drop_key \notin DOMAIN s3.dict THEN Raise(s3, "KeyError")
       ELSE [s3 EXCEPT !.dict = DelKey(@, drop_key)]

(* A mutation of LFUCache_put: min_freq is set to 1 by every put, also by  *)
(* a put of a stored key.                                                  *)
LFUCache_put_min_reset(s, key, value) ==
    LET s2 == IF key \in DOMAIN s.dict
              THEN LFUCache_incriment_usage_count([s EXCEPT !.dict[key][1] = value], key)
              ELSE LET s1 == LFUCache_add(s, key, value)
                   IN IF Cardinality(DOMAIN s1.dict) > capacity
                      THEN LFUCache_drop(s1, key)
                      ELSE s1
    IN IF s2.exc # "none" THEN s2
       ELSE Return([s2 EXCEPT !.min_freq = 1], None)

(* A mutation of LFUCache_put: the value of a stored key is not replaced.  *)
LFUCache_put_no_overwrite(s, key, value) ==
    IF key \in DOMAIN s.dict
    THEN Return(LFUCache_incriment_usage_count(s, key), None)
    ELSE LET s1 == LFUCache_add(s, key, value)
             s2 == IF Cardinality(DOMAIN s1.dict) > capacity
                   THEN LFUCache_drop(s1, key)
                   ELSE s1
         IN IF s2.exc # "none" THEN s2
            ELSE Return([s2 EXCEPT !.min_freq = 1], None)

(* A mutation of LFUCache_put: the eviction starts one key early.          *)
LFUCache_put_evict_early(s, key, value) ==
    IF key \in DOMAIN s.dict
    THEN Return(LFUCache_incriment_usage_count([s EXCEPT !.dict[key][1] = value], key), None)
    ELSE LET s1 == LFUCache_add(s, key, value)
             s2 == IF Cardinality(DOMAIN s1.dict) >= capacity
                   THEN LFUCache_drop(s1, key)
                   ELSE s1
         IN IF s2.exc # "none" THEN s2
            ELSE Return([s2 EXCEPT !.min_freq = 1], None)

LFUCache_put(s, key, value) ==
    IF key \in DOMAIN s.dict
    THEN Return(LFUCache_incriment_usage_count([s EXCEPT !.dict[key][1] = value], key), None)
    ELSE LET s1 == LFUCache_add(s, key, value)
             s2 == IF Cardinality(DOMAIN s1.dict) > capacity
                   THEN LFUCache_drop(s1, key)
                   ELSE s1
         IN IF s2.exc # "none" THEN s2
            ELSE Return([s2 EXCEPT !.min_freq = 1], None)

(* ---- the calls ---- *)

(* The history of accesses: an access (a put of the key, or a get that     *)
(* finds it) makes the key the most recent one; a key that has left the    *)
(* index leaves the history.                                               *)
Touch(q, k) == Append(SeqWithout(q, k), k)

Accessed(hit, key) ==
    LET q == IF hit THEN Touch(recency, key) ELSE recency
    IN recency' = SelectSeq(q, LAMBDA x : x \in DOMAIN dict')

Commit(s) ==
    LET c == Collect(s)
    IN /\ dict' = c.dict
       /\ head' = c.head
       /\ tail' = c.tail
       /\ nodes' = c.nodes
       /\ freq_dict' = c.freq_dict
       /\ min_freq' = c.min_freq
       /\ ret' = c.ret
       /\ exc' = c.exc

(* Where the key of a call stood when the call was made: "absent", or for  *)
(* a stored key "stored" (LFUCache) or the place of its node in the list   *)
(* (LRUCache).                                                             *)
Was(key) ==
    IF key \notin DOMAIN dict THEN "absent"
    ELSE IF cls # "LRUCache" THEN "stored"
    ELSE IF dict[key][2] = tail THEN "tail"
    ELSE IF dict[key][2] = head THEN "head"
    ELSE "interior"

Call(op, key, value) ==
    [op |-> op, key |-> key, value |-> value,
     hit |-> key \in DOMAIN dict,
     full |-> Cardinality(DOMAIN dict) = capacity,
     was |-> Was(key)]

LRU_Get(key) ==
    /\ cls = "LRUCache"
    /\ exc = "none"
    /\ Commit(LRUCache_get(Self, key))
    /\ last' = Call("get", key, None)
    /\ Accessed(key \in DOMAIN dict, key)
    /\ UNCHANGED <<cls, capacity, others>>

LRU_Put(key, value) ==
    /\ cls = "LRUCache"
    /\ exc = "none"
    /\ Commit(LRUCache_put(Self, key, value))
    /\ last' = Call("put", key, value)
    /\ Accessed(TRUE, key)
    /\ UNCHANGED <<cls, capacity, others>>

(* obj[key] = val *)
LRU_SetItem(key, val) ==
    /\ cls = "LRUCache"
    /\ exc = "none"
    /\ Commit(LRUCache_put(Self, key, val))
    /\ last' = Call("__setitem__", key, val)
    /\ Accessed(TRUE, key)
    /\ UNCHANGED <<cls, capacity, others>>

(* A call that would raise a usage count above MaxFreq is left out.        *)
CountBelowMax(key) == key \in DOMAIN dict => dict[key][2] < MaxFreq

LFU_Get(key) ==
    /\ cls = "LFUCache"
    /\ exc = "none"
    /\ CountBelowMax(key)
    /\ Commit(LFUCache_get(Self, key))
    /\ last' = Call("get", key, None)
    /\ Accessed(key \in DOMAIN dict, key)
    /\ UNCHANGED <<cls, capacity, others>>

LFU_Put(key, value) ==
    /\ cls = "LFUCache"
    /\ exc = "none"
    /\ CountBelowMax(key)
    /\ Commit(LFUCache_put(Self, key, value))
    /\ last' = Call("put", key, value)
    /\ Accessed(TRUE, key)
    /\ UNCHANGED <<cls, capacity, others>>

(* obj[key] = val *)
LFU_SetItem(key, val) ==
    /\ cls = "LFUCache"
    /\ exc = "none"
    /\ CountBelowMax(key)
    /\ Commit(LFUCache_put(Self, key, val))
    /\ last' = Call("__setitem__", key, val)
    /\ Accessed(TRUE, key)
    /\ UNCHANGED <<cls, capacity, others>>

(* len(obj) *)
CacheLen == Cardinality(DOMAIN dict)

Init ==
    /\ cls \in {"LRUCache", "LFUCache"}
    /\ capacity \in Capacities(cls)
    /\ dict = <<>>
    /\ head = None
    /\ tail = None
    /\ nodes = <<>>
    /\ freq_dict = <<>>
    /\ min_freq = None
    /\ ret = None
    /\ exc = "none"
    /\ last = [op |-> "__init__", key |-> None, value |-> None, hit |-> FALSE, full |-> FALSE,
               was |-> "absent"]
    /\ recency = <<>>
    /\ deque = None
    /\ heap = None
    /\ bit = None
    /\ seg = None
    /\ NoLater
    /\ ref = None

Next ==
    \/ \E key \in LRU_Keys : LRU_Get(key)
    \/ \E key \in LRU_Keys, value \in Vals : LRU_Put(key, value)
    \/ \E key \in LRU_Keys, val \in Vals : LRU_SetItem(key, val)
    \/ \E key \in LFU_Keys : LFU_Get(key)
    \/ \E key \in LFU_Keys, value \in Vals : LFU_Put(key, value)
    \/ \E key \in LFU_Keys, val \in Vals : LFU_SetItem(key, val)

Spec == Init /\ [][Next]_vars

(* ---- properties ---- *)

IsPut(c) == c.op \in {"put", "__setitem__"}

(* The node references met from head by following next_; the walk stops    *)
(* after more steps than there are nodes.                                  *)
RECURSIVE ChainFrom(_, _)
ChainFrom(n, fuel) ==
    IF n = None \/ n \notin DOMAIN nodes \/ fuel = 0 THEN <<>>
    ELSE <<n>> \o ChainFrom(nodes[n].next_, fuel - 1)

ListRefs == ChainFrom(head, Cardinality(DOMAIN nodes) + 1)

ListKeys == [i \in DOMAIN ListRefs |-> nodes[ListRefs[i]].val]

Occurrences(q, k) == Cardinality({i \in DOMAIN q : q[i] = k})

(* C1: with capacity >= 1, after every completed get or put of either      *)
(* class, len(cache) is at most capacity.                                  *)
C1_SizeWithinCapacity == capacity >= 1 => CacheLen <= capacity

C1_Witness ==
    /\ cls = "LFUCache" /\ capacity >= 1 /\ exc = "none"
    /\ IsPut(last) /\ ~last.hit /\ last.full
    /\ CacheLen = capacity

(* C2: LRUCache, capacity >= 1: the nodes reachable from head via next_    *)
(* hold exactly the keys of the index, each once, and the node reference   *)
(* in the index entry of key k is the list node whose val is k.            *)
C2_LRUListMatchesIndex ==
    (cls = "LRUCache" /\ capacity >= 1) =>
        /\ Len(ListRefs) = Cardinality(DOMAIN dict)
        /\ Range(ListKeys) = DOMAIN dict
        /\ \A k \in DOMAIN dict :
              /\ Occurrences(ListKeys, k) = 1
              /\ dict[k][2] \in Range(ListRefs)
              /\ nodes[dict[k][2]].val = k

C2_Witness ==
    /\ cls = "LRUCache" /\ capacity >= 3
    /\ last.op = "get" /\ last.hit
    /\ Len(ListRefs) = 3
    /\ ListKeys[3] = last.key

(* C3: LFUCache, capacity >= 1: every key of the index is in exactly one   *)
(* bucket, the one numbered by its usage count in the index, and no bucket *)
(* holds a key that is not in the index.                                   *)
C3_LFUBucketMembership ==
    (cls = "LFUCache" /\ capacity >= 1) =>
        /\ \A k \in DOMAIN dict :
              /\ dict[k][2] \in DOMAIN freq_dict
              /\ \A f \in DOMAIN freq_dict :
                    Occurrences(freq_dict[f], k) = IF f = dict[k][2] THEN 1 ELSE 0
        /\ \A f \in DOMAIN freq_dict : Range(freq_dict[f]) \subseteq DOMAIN dict

C3_Witness ==
    /\ cls = "LFUCache" /\ capacity >= 2
    /\ last.op = "get" /\ last.hit
    /\ Cardinality(DOMAIN freq_dict) >= 2
    /\ dict[last.key][2] >= 2

(* C4: LFUCache, capacity >= 1, cache not empty: min_freq is the smallest  *)
(* usage count of a stored key, which is the smallest number of a          *)
(* non-empty bucket.                                                       *)
C4_MinFreqIsSmallestCount ==
    (cls = "LFUCache" /\ capacity >= 1 /\ dict # <<>>) =>
        /\ min_freq = SetMin({dict[k][2] : k \in DOMAIN dict})
        /\ {f \in DOMAIN freq_dict : freq_dict[f] # <<>>} # {}
        /\ min_freq = SetMin({f \in DOMAIN freq_dict : freq_dict[f] # <<>>})

C4_Witness ==
    /\ cls = "LFUCache" /\ capacity >= 1
    /\ last.op = "get" /\ last.hit
    /\ min_freq >= 2
    /\ 1 \notin DOMAIN freq_dict

(* C5: LRUCache, capacity >= 1: a put of an absent key on a full cache     *)
(* removes exactly one key, the stored key whose latest access is older    *)
(* than that of every other stored key; the other stored keys remain.      *)
C5_LRUEvictsLeastRecent ==
    [][ ( /\ cls = "LRUCache" /\ capacity >= 1
          /\ IsPut(last')
          /\ last'.key \notin DOMAIN dict
          /\ Cardinality(DOMAIN dict) = capacity )
        => \E victim \in DOMAIN dict :
              /\ DOMAIN dict' = (DOMAIN dict \ {victim}) \cup {last'.key}
              /\ \A j \in DOMAIN dict \ {victim} :
                    PosIn(recency, victim) < PosIn(recency, j) ]_vars

C5_Witness ==
    /\ cls = "LRUCache" /\ capacity >= 2 /\ exc = "none"
    /\ IsPut(last) /\ ~last.hit /\ last.full
    /\ CacheLen = capacity
    /\ ListKeys[Len(ListKeys)] = last.key

(* C6: LFUCache, capacity >= 1: a put of an absent key on a full cache     *)
(* removes exactly one key: a key stored before the call with the smallest *)
(* usage count and, among those, the one that entered its bucket earliest, *)
(* the front of the min_freq bucket; the new key is not the one removed.   *)
C6_LFUEvictsFrontOfMinBucket ==
    [][ ( /\ cls = "LFUCache" /\ capacity >= 1
          /\ IsPut(last')
          /\ last'.key \notin DOMAIN dict
          /\ Cardinality(DOMAIN dict) = capacity )
        => \E victim \in DOMAIN dict :
              /\ DOMAIN dict' = (DOMAIN dict \ {victim}) \cup {last'.key}
              /\ last'.key \in DOMAIN dict'
              /\ \A j \in DOMAIN dict : dict[victim][2] <= dict[j][2]
              /\ \A j \in DOMAIN dict \ {victim} :
                    dict[j][2] = dict[victim][2] =>
                        PosIn(recency, victim) < PosIn(recency, j)
              /\ victim = Head(freq_dict[min_freq]) ]_vars

C6_Witness ==
    /\ cls = "LFUCache" /\ capacity >= 2 /\ exc = "none"
    /\ IsPut(last) /\ ~last.hit /\ last.full
    /\ CacheLen = capacity
    /\ Len(freq_dict[1]) >= 2
    /\ last.key \in DOMAIN dict

(* What get(key) returns when called in the current state.                 *)
GetNow(key) ==
    IF cls = "LRUCache" THEN LRUCache_get(Self, key) ELSE LFUCache_get(Self, key)

(* C7: both classes, capacity >= 1: right after put(k, v) or cache[k] = v, *)
(* get(k) returns v.                                                       *)
C7_PutThenGet ==
    (capacity >= 1 /\ IsPut(last)) =>
        /\ GetNow(last.key).exc = "none"
        /\ GetNow(last.key).ret = last.value

C7_Witness ==
    /\ capacity >= 1 /\ exc = "none"
    /\ last.op = "__setitem__" /\ ~last.hit /\ last.full
    /\ GetNow(last.key).ret = last.value

(* C8: both classes: get of a key that is not stored returns None and      *)
(* changes nothing of the object.                                          *)
C8_GetMissChangesNothing ==
    [][ (last'.op = "get" /\ last'.key \notin DOMAIN dict)
        => /\ ret' = None
           /\ exc' = "none"
           /\ UNCHANGED <<capacity, dict, head, tail, nodes, freq_dict, min_freq>> ]_vars

C8_Witness ==
    /\ last.op = "get" /\ ~last.hit
    /\ ret = None /\ exc = "none"
    /\ CacheLen >= 1

(* C9: constructing either class with capacity < 1 raises an error.        *)
C9_BadCapacityRejected ==
    (last.op = "__init__" /\ capacity < 1) => exc # "none"

(* C10: both classes, capacity >= 1: no get or put raises.                 *)
C10_NoCallRaises == capacity >= 1 => exc = "none"

C10_Witness ==
    /\ cls = "LRUCache" /\ capacity = 1 /\ exc = "none"
    /\ IsPut(last) /\ ~last.hit /\ last.full
    /\ head # None /\ head = tail
    /\ nodes[head].val = last.key

(* C11: LRUCache: put(k, v) of a stored key k overwrites the value of k    *)
(* with v, makes k the tail of the list, and leaves the stored keys, the   *)
(* other values and len(cache) as they were, also when the cache is full.  *)
C11_LRUPutStoredKey ==
    [][ (cls = "LRUCache" /\ IsPut(last') /\ last'.key \in DOMAIN dict)
        => /\ exc' = "none"
           /\ DOMAIN dict' = DOMAIN dict
           /\ CacheLen' = CacheLen
           /\ dict'[last'.key][1] = last'.value
           /\ \A j \in DOMAIN dict \ {last'.key} : dict'[j][1] = dict[j][1]
           /\ tail' = dict'[last'.key][2]
           /\ ListKeys' = Touch(ListKeys, last'.key) ]_vars

C11_Witness ==
    /\ cls = "LRUCache" /\ capacity = 3 /\ exc = "none"
    /\ IsPut(last) /\ last.hit /\ last.full /\ last.was = "head"
    /\ ListKeys[3] = last.key
    /\ dict[last.key][1] = last.value

(* C12: LFUCache: put(k, v) of a stored key k overwrites the value of k    *)
(* with v, raises its usage count by one, changes the buckets and min_freq *)
(* exactly as a get hit of k does, and leaves the stored keys, len(cache)  *)
(* and the other entries as they were, also when the cache is full.        *)
C12_LFUPutStoredKey ==
    [][ (cls = "LFUCache" /\ IsPut(last') /\ last'.key \in DOMAIN dict)
        => /\ exc' = "none"
           /\ DOMAIN dict' = DOMAIN dict
           /\ CacheLen' = CacheLen
           /\ dict'[last'.key] = <<last'.value, dict[last'.key][2] + 1>>
           /\ \A j \in DOMAIN dict \ {last'.key} : dict'[j] = dict[j]
           /\ freq_dict' = LFUCache_get(Self, last'.key).freq_dict
           /\ min_freq' = LFUCache_get(Self, last'.key).min_freq ]_vars

C12_Witness ==
    /\ cls = "LFUCache" /\ capacity = 2 /\ exc = "none"
    /\ IsPut(last) /\ last.hit /\ last.full
    /\ min_freq = 2
    /\ dict[last.key] = <<last.value, 3>>

(* C13: LFUCache: get(k) of a stored key k returns the value stored for k  *)
(* and raises the usage count of k by one; the value of k and the entries  *)
(* of the other keys stay as they were.                                    *)
C13_LFUGetHit ==
    [][ (cls = "LFUCache" /\ last'.op = "get" /\ last'.key \in DOMAIN dict)
        => /\ exc' = "none"
           /\ ret' = dict[last'.key][1]
           /\ DOMAIN dict' = DOMAIN dict
           /\ dict'[last'.key] = <<dict[last'.key][1], dict[last'.key][2] + 1>>
           /\ \A j \in DOMAIN dict \ {last'.key} : dict'[j] = dict[j] ]_vars

C13_Witness ==
    /\ cls = "LFUCache" /\ capacity = 2 /\ exc = "none"
    /\ last.op = "get" /\ last.hit
    /\ CacheLen = 2
    /\ ret = dict[last.key][1]
    /\ dict[last.key][2] = 3

(* C14: LRUCache: get(k) of a stored key k returns the value stored for k  *)
(* and moves the node of k to the tail of the list; the other keys keep    *)
(* their order and every value stays, wherever the node of k stood.        *)
C14_LRUGetHit ==
    [][ (cls = "LRUCache" /\ last'.op = "get" /\ last'.key \in DOMAIN dict)
        => /\ exc' = "none"
           /\ ret' = dict[last'.key][1]
           /\ DOMAIN dict' = DOMAIN dict
           /\ \A j \in DOMAIN dict : dict'[j][1] = dict[j][1]
           /\ tail' = dict'[last'.key][2]
           /\ ListKeys' = Touch(ListKeys, last'.key) ]_vars

C14_Witness ==
    /\ cls = "LRUCache" /\ capacity = 3 /\ exc = "none"
    /\ last.op = "get" /\ last.hit /\ last.was = "interior"
    /\ Len(ListKeys) = 3
    /\ ListKeys[3] = last.key
    /\ ret = dict[last.key][1]

(* C15: both classes: get leaves the set of stored keys and len(cache) as  *)
(* they were; LRUCache: a get(k) right after a get(k) changes nothing of   *)
(* the object.                                                             *)
C15_GetKeepsKeys ==
    [][ /\ last'.op = "get" => (DOMAIN dict' = DOMAIN dict /\ CacheLen' = CacheLen)
        /\ ( /\ cls = "LRUCache"
             /\ last.op = "get" /\ last'.op = "get" /\ last'.key = last.key )
           => UNCHANGED <<capacity, dict, head, tail, nodes, ret, exc>> ]_vars

C15_Witness ==
    /\ cls = "LRUCache" /\ capacity >= 2 /\ exc = "none"
    /\ last.op = "get" /\ last.hit /\ last.was = "tail"
    /\ CacheLen = capacity
    /\ nodes[tail].val = last.key

(***************************************************************************)
(* src/ds/deque.py: Deque                                                  *)
(***************************************************************************)

Deque_MaxK == 3   \* a Deque is constructed with k in 0..Deque_MaxK

(* The smallest reference no live ListNode has.                            *)
FreeRef(ns) ==
    CHOOSE n \in 1..(Cardinality(DOMAIN ns) + 1) :
        /\ n \notin DOMAIN ns
        /\ \A m \in 1..(n - 1) : m \in DOMAIN ns

(* The Deque object with the outcome of the call being made.               *)
DequeSelf == [k |-> deque.k, n |-> deque.n, head |-> deque.head, tail |-> deque.tail,
              nodes |-> deque.nodes, ret |-> None, exc |-> "none"]

(* Reference counting frees a ListNode neither head, tail nor a live node  *)
(* refers to.                                                              *)
Deque_collect(d) ==
    LET live == Reach(d, {d.head, d.tail} \cap DOMAIN d.nodes)
    IN [d EXCEPT !.nodes = [n \in live |-> d.nodes[n]]]

(* A mutation of Deque_append_left: no test for a free place.              *)
Deque_append_left_unbounded(d, value) ==
    LET r == FreeRef(d.nodes)
        d1 == IF d.n = 0
              THEN [d EXCEPT !.nodes = SetKey(@, r, ListNode(value, None, None)),
                             !.head = r, !.tail = r]
              ELSE IF d.head = None THEN Raise(d, "AttributeError")
              ELSE [d EXCEPT !.nodes = SetKey([@ EXCEPT ![d.head].prev_ = r],
                                              r, ListNode(value, None, d.head)),
                             !.head = r]
    IN IF d1.exc # "none" THEN d1 ELSE [d1 EXCEPT !.n = @ + 1]

Deque_append_left(d, value) ==
    IF d.n < d.k
    THEN LET r == FreeRef(d.nodes)
             d1 == IF d.n = 0
                   THEN [d EXCEPT !.nodes = SetKey(@, r, ListNode(value, None, None)),
                                  !.head = r, !.tail = r]
                   ELSE IF d.head = None THEN Raise(d, "AttributeError")
                   ELSE [d EXCEPT !.nodes = SetKey([@ EXCEPT ![d.head].prev_ = r],
                                                   r, ListNode(value, None, d.head)),
                                  !.head = r]
         IN IF d1.exc # "none" THEN d1 ELSE [d1 EXCEPT !.n = @ + 1]
    ELSE d

Deque_append(d, value) ==
    IF d.n < d.k
    THEN LET r == FreeRef(d.nodes)
             d1 == IF d.n = 0
                   THEN [d EXCEPT !.nodes = SetKey(@, r, ListNode(value, None, None)),
                                  !.head = r, !.tail = r]
                   ELSE IF d.tail = None THEN Raise(d, "AttributeError")
                   ELSE [d EXCEPT !.nodes = SetKey([@ EXCEPT ![d.tail].next_ = r],
                                                   r, ListNode(value, d.tail, None)),
                                  !.tail = r]
         IN IF d1.exc # "none" THEN d1 ELSE [d1 EXCEPT !.n = @ + 1]
    ELSE d

Deque_pop_left(d) ==
    IF d.n = 0 THEN Return(d, None)
    ELSE IF d.head = None THEN Raise(d, "AttributeError")
    ELSE LET return_val == d.nodes[d.head].val
             d1 == IF d.n = 1 THEN [d EXCEPT !.head = None, !.tail = None]
                   ELSE LET h == d.nodes[d.head].next_
                        IN IF h = None
                           THEN Raise([d EXCEPT !.head = None], "AttributeError")
                           ELSE [d EXCEPT !.head = h, !.nodes[h].prev_ = None]
         IN IF d1.exc # "none" THEN d1
            ELSE Return([d1 EXCEPT !.n = @ - 1], return_val)

(* A mutation of Deque_pop: the value of the head is returned.             *)
Deque_pop_returns_head(d) ==
    IF d.n = 0 THEN Return(d, None)
    ELSE IF d.tail = None \/ d.head = None THEN Raise(d, "AttributeError")
    ELSE LET return_val == d.nodes[d.head].val
             d1 == IF d.n = 1 THEN [d EXCEPT !.head = None, !.tail = None]
                   ELSE LET u == d.nodes[d.tail].prev_
                        IN IF u = None
                           THEN Raise([d EXCEPT !.tail = None], "AttributeError")
                           ELSE [d EXCEPT !.tail = u, !.nodes[u].next_ = None]
         IN IF d1.exc # "none" THEN d1
            ELSE Return([d1 EXCEPT !.n = @ - 1], return_val)

Deque_pop(d) ==
    IF d.n = 0 THEN Return(d, None)
    ELSE IF d.tail = None THEN Raise(d, "AttributeError")
    ELSE LET return_val == d.nodes[d.tail].val
             d1 == IF d.n = 1 THEN [d EXCEPT !.head = None, !.tail = None]
                   ELSE LET u == d.nodes[d.tail].prev_
                        IN IF u = None
                           THEN Raise([d EXCEPT !.tail = None], "AttributeError")
                           ELSE [d EXCEPT !.tail = u, !.nodes[u].next_ = None]
         IN IF d1.exc # "none" THEN d1
            ELSE Return([d1 EXCEPT !.n = @ - 1], return_val)

(* The observers; get_front and get_rear give -1 for an empty deque, and   *)
(* "AttributeError" stands for the failed self.head.val / self.tail.val.   *)
Deque_get_front(d) ==
    IF d.n > 0 THEN (IF d.head = None THEN "AttributeError" ELSE d.nodes[d.head].val)
    ELSE 0 - 1

Deque_get_rear(d) ==
    IF d.n > 0 THEN (IF d.tail = None THEN "AttributeError" ELSE d.nodes[d.tail].val)
    ELSE 0 - 1

Deque_is_empty(d) == d.n = 0

Deque_is_full(d) == d.n = d.k

Deque_len(d) == d.n

(* The values __repr__ lists: those of the nodes from head via next_.      *)
RECURSIVE Deque_repr(_, _, _)
Deque_repr(d, node, fuel) ==
    IF node = None \/ node \notin DOMAIN d.nodes \/ fuel = 0 THEN <<>>
    ELSE <<d.nodes[node].val>> \o Deque_repr(d, d.nodes[node].next_, fuel - 1)

DequeVals == Deque_repr(deque, deque.head, Cardinality(DOMAIN deque.nodes) + 1)

(* The values met from tail via prev_.                                     *)
RECURSIVE Deque_back(_, _, _)
Deque_back(d, node, fuel) ==
    IF node = None \/ node \notin DOMAIN d.nodes \/ fuel = 0 THEN <<>>
    ELSE <<d.nodes[node].val>> \o Deque_back(d, d.nodes[node].prev_, fuel - 1)

DequeValsBack == Deque_back(deque, deque.tail, Cardinality(DOMAIN deque.nodes) + 1)

(* ---- the calls ---- *)

(* The reference: a sequence of at most k values, and what pop and         *)
(* pop_left give on it.                                                    *)
RefPushBack(q, k, value) == IF Len(q) < k THEN Append(q, value) ELSE q

RefPushFront(q, k, value) == IF Len(q) < k THEN <<value>> \o q ELSE q

RefPopBack(q) == IF q = <<>> THEN q ELSE SubSeq(q, 1, Len(q) - 1)

RefPopFront(q) == IF q = <<>> THEN q ELSE Tail(q)

DequeCommit(d) ==
    LET c == Deque_collect(d)
    IN /\ deque' = [k |-> c.k, n |-> c.n, head |-> c.head, tail |-> c.tail, nodes |-> c.nodes]
       /\ ret' = c.ret
       /\ exc' = c.exc

DequeCall(op, value, expect) ==
    [op |-> op, value |-> value, expect |-> expect, full |-> Len(ref) = deque.k]

DQ_AppendLeft(value) ==
    /\ cls = "Deque"
    /\ exc = "none"
    /\ DequeCommit(Deque_append_left(DequeSelf, value))
    /\ last' = DequeCall("append_left", value, None)
    /\ ref' = RefPushFront(ref, deque.k, value)
    /\ UNCHANGED <<cls, cache_fields, heap, bit, seg, later>>

DQ_Append(value) ==
    /\ cls = "Deque"
    /\ exc = "none"
    /\ DequeCommit(Deque_append(DequeSelf, value))
    /\ last' = DequeCall("append", value, None)
    /\ ref' = RefPushBack(ref, deque.k, value)
    /\ UNCHANGED <<cls, cache_fields, heap, bit, seg, later>>

DQ_PopLeft ==
    /\ cls = "Deque"
    /\ exc = "none"
    /\ DequeCommit(Deque_pop_left(DequeSelf))
    /\ last' = DequeCall("pop_left", None, IF ref = <<>> THEN None ELSE Head(ref))
    /\ ref' = RefPopFront(ref)
    /\ UNCHANGED <<cls, cache_fields, heap, bit, seg, later>>

DQ_Pop ==
    /\ cls = "Deque"
    /\ exc = "none"
    /\ DequeCommit(Deque_pop(DequeSelf))
    /\ last' = DequeCall("pop", None, IF ref = <<>> THEN None ELSE ref[Len(ref)])
    /\ ref' = RefPopBack(ref)
    /\ UNCHANGED <<cls, cache_fields, heap, bit, seg, later>>

(* No cache object exists in the run of another class.                     *)
NoCache ==
    /\ capacity = None
    /\ dict = <<>>
    /\ head = None
    /\ tail = None
    /\ nodes = <<>>
    /\ freq_dict = <<>>
    /\ min_freq = None
    /\ recency = <<>>

InitDeque ==
    /\ cls = "Deque"
    /\ NoCache
    /\ \E k \in 0..Deque_MaxK :
          deque = [k |-> k, n |-> 0, head |-> None, tail |-> None, nodes |-> <<>>]
    /\ heap = None
    /\ bit = None
    /\ seg = None
    /\ NoLater
    /\ ref = <<>>
    /\ ret = None
    /\ exc = "none"
    /\ last = [op |-> "__init__", value |-> None, expect |-> None, full |-> FALSE]

NextDeque ==
    \/ \E value \in Vals : DQ_AppendLeft(value)
    \/ \E value \in Vals : DQ_Append(value)
    \/ DQ_PopLeft
    \/ DQ_Pop

SpecDeque == InitDeque /\ [][NextDeque]_vars

(* C19: Deque(k), k >= 0: after every call 0 <= len(deque) <= k; is_full() *)
(* is True exactly when len(deque) = k and is_empty() exactly when         *)
(* len(deque) = 0; append and append_left on a full deque leave the        *)
(* contents and the length as they were.                                   *)
DequeSizeOk(d, vals) ==
    /\ 0 <= Deque_len(d) /\ Deque_len(d) <= d.k
    /\ Deque_is_full(d) <=> (Deque_len(d) = d.k /\ Len(vals) = d.k)
    /\ Deque_is_empty(d) <=> (Deque_len(d) = 0 /\ vals = <<>>)

C19_DequeBounded ==
    [][ cls = "Deque" =>
          /\ DequeSizeOk(deque, DequeVals)
          /\ DequeSizeOk(deque', DequeVals')
          /\ (last'.op \in {"append", "append_left"} /\ Deque_len(deque) = deque.k)
             => /\ DequeVals' = DequeVals
                /\ Deque_len(deque') = Deque_len(deque)
                /\ exc' = "none" ]_vars

C19_Witness ==
    /\ cls = "Deque" /\ deque.k = 2 /\ exc = "none"
    /\ last.op = "append_left" /\ last.full
    /\ Deque_is_full(deque)
    /\ Len(DequeVals) = 2
    /\ DequeVals[1] # last.value

(* C20: Deque: after every call the values from head via next_ are the     *)
(* reference sequence (append adds at the back, append_left at the front,  *)
(* both only when not full; pop takes the last element, pop_left the       *)
(* first); pop and pop_left return the element taken, or None on an empty  *)
(* deque, which stays empty; get_front and get_rear give the first and the *)
(* last element, or -1 when empty; n is the number of linked nodes.        *)
C20_DequeRefinesSequence ==
    cls = "Deque" =>
        /\ exc = "none"
        /\ DequeVals = ref
        /\ DequeValsBack = [i \in DOMAIN ref |-> ref[Len(ref) + 1 - i]]
        /\ deque.n = Len(DequeVals)
        /\ deque.n = Cardinality(DOMAIN deque.nodes)
        /\ ret = last.expect
        /\ Deque_get_front(deque) = IF ref = <<>> THEN 0 - 1 ELSE ref[1]
        /\ Deque_get_rear(deque) = IF ref = <<>> THEN 0 - 1 ELSE ref[Len(ref)]

C20_Witness ==
    /\ cls = "Deque" /\ deque.k = 3 /\ exc = "none"
    /\ last.op = "pop" /\ ret # None
    /\ Len(ref) = 2
    /\ ref[1] # ret
    /\ DequeVals = ref

(***************************************************************************)
(* src/ds/heaps.py: MinHeap, MaxHeap                                       *)
(***************************************************************************)

Heap_NVals == 3    \* the elements pushed are 1..Heap_NVals
Heap_MaxLen == 5   \* push is not called on a heap of Heap_MaxLen elements

Heap_Vals == 1..Heap_NVals

(* a[i] of a Python list: i counts from 0, a negative i from the end.      *)
PyItem(a, i) == IF i < 0 THEN a[Len(a) + i + 1] ELSE a[i + 1]

(* a[i], a[j] = a[j], a[i] *)
PySwap(a, i, j) ==
    LET ii == IF i < 0 THEN Len(a) + i + 1 ELSE i + 1
        jj == IF j < 0 THEN Len(a) + j + 1 ELSE j + 1
    IN [a EXCEPT ![ii] = a[jj], ![jj] = a[ii]]

(* The heap list with the outcome of the call being made.                  *)
HeapSelf == [heap |-> heap, ret |-> None, exc |-> "none"]

(* MaxHeap.push, the while loop of lines 153-158.                          *)
RECURSIVE MaxHeap_swim(_, _, _)
MaxHeap_swim(a, idx_x, idx_parent) ==
    IF PyItem(a, idx_x - 1) > PyItem(a, idx_parent - 1) /\ idx_x > 1
    THEN MaxHeap_swim(PySwap(a, idx_parent - 1, idx_x - 1), idx_parent, idx_parent \div 2)
    ELSE a

MaxHeap_push(h, x) ==
    LET a == Append(h.heap, x)
        idx_x == Len(a)
        idx_parent == idx_x \div 2
    IN Return([h EXCEPT !.heap = MaxHeap_swim(a, idx_x, idx_parent)], None)

(* MaxHeap.pop, the while loop of lines 177-209.                           *)
RECURSIVE MaxHeap_sink(_, _, _)
MaxHeap_sink(a, idx_x, n) ==
    IF ~(idx_x <= n) THEN a
    ELSE
      LET idx_L == idx_x * 2
          idx_R == idx_x * 2 + 1
          idx == idx_x - 1
          L == idx_L - 1
          R == idx_R - 1
          has_left == idx_L <= n
          has_right == idx_R <= n
      IN IF has_left
         THEN LET bool_1 == PyItem(a, idx) < PyItem(a, L)
              IN IF has_right
                 THEN LET bool_2 == PyItem(a, idx) < PyItem(a, R)
                      IN IF bool_1 \/ bool_2
                         THEN IF PyItem(a, L) > PyItem(a, R)
                              THEN MaxHeap_sink(PySwap(a, L, idx), idx_L, n)
                              ELSE MaxHeap_sink(PySwap(a, R, idx), idx_R, n)
                         ELSE a
                 ELSE IF bool_1
                      THEN MaxHeap_sink(PySwap(a, L, idx), idx_L, n)
                      ELSE a
         ELSE a

MaxHeap_pop(h) ==
    IF Len(h.heap) = 0 THEN Raise(h, "IndexError")
    ELSE LET a == PySwap(h.heap, 0, 0 - 1)
             output == a[Len(a)]
             b == SubSeq(a, 1, Len(a) - 1)
         IN Return([h EXCEPT !.heap = MaxHeap_sink(b, 1, Len(b))], output)

(* MinHeap.push, the while loop of lines 39-44.                            *)
RECURSIVE MinHeap_swim(_, _, _)
MinHeap_swim(a, idx_x, idx_parent) ==
    IF PyItem(a, idx_x - 1) < PyItem(a, idx_parent - 1) /\ idx_x > 1
    THEN MinHeap_swim(PySwap(a, idx_parent - 1, idx_x - 1), idx_parent, idx_parent \div 2)
    ELSE a

(* A mutation of MinHeap_push: the comparison of MaxHeap.push is used.     *)
MinHeap_push_max_compare(h, x) == MaxHeap_push(h, x)

MinHeap_push(h, x) ==
    LET a == Append(h.heap, x)
        idx_x == Len(a)
        idx_parent == idx_x \div 2
    IN Return([h EXCEPT !.heap = MinHeap_swim(a, idx_x, idx_parent)], None)

(* MinHeap.pop, the while loop of lines 63-95.                             *)
RECURSIVE MinHeap_sink(_, _, _)
MinHeap_sink(a, idx_x, n) ==
    IF ~(idx_x <= n) THEN a
    ELSE
      LET idx_L == idx_x * 2
          idx_R == idx_x * 2 + 1
          idx == idx_x - 1
          L == idx_L - 1
          R == idx_R - 1
          has_left == idx_L <= n
          has_right == idx_R <= n
      IN IF has_left
         THEN LET bool_1 == PyItem(a, idx) > PyItem(a, L)
              IN IF has_right
                 THEN LET bool_2 == PyItem(a, idx) > PyItem(a, R)
                      IN IF bool_1 \/ bool_2
                         THEN IF PyItem(a, L) < PyItem(a, R)
                              THEN MinHeap_sink(PySwap(a, L, idx), idx_L, n)
                              ELSE MinHeap_sink(PySwap(a, R, idx), idx_R, n)
                         ELSE a
                 ELSE IF bool_1
                      THEN MinHeap_sink(PySwap(a, L, idx), idx_L, n)
                      ELSE a
         ELSE a

MinHeap_pop(h) ==
    IF Len(h.heap) = 0 THEN Raise(h, "IndexError")
    ELSE LET a == PySwap(h.heap, 0, 0 - 1)
             output == a[Len(a)]
             b == SubSeq(a, 1, Len(a) - 1)
         IN Return([h EXCEPT !.heap = MinHeap_sink(b, 1, Len(b))], output)

(* size() and top(); top() of an empty heap raises IndexError.             *)
Heap_size(a) == Len(a)

Heap_top(a) == IF Len(a) = 0 THEN "IndexError" ELSE PyItem(a, 0)

(* ---- the calls ---- *)

(* The reference: the elements pushed and not yet popped, in ascending     *)
(* order.                                                                  *)
RefInsert(q, x) ==
    LET lo == SelectSeq(q, LAMBDA y : y <= x)
        hi == SelectSeq(q, LAMBDA y : y > x)
    IN lo \o <<x>> \o hi

RefBest(q) == IF cls = "MinHeap" THEN q[1] ELSE q[Len(q)]

RefTake(q) ==
    IF q = <<>> THEN q
    ELSE IF cls = "MinHeap" THEN Tail(q) ELSE SubSeq(q, 1, Len(q) - 1)

Sorted(a) ==
    LET RECURSIVE ins(_, _)
        ins(q, i) == IF i > Len(a) THEN q ELSE ins(RefInsert(q, a[i]), i + 1)
    IN ins(<<>>, 1)

HeapCommit(h) ==
    /\ heap' = h.heap
    /\ ret' = h.ret
    /\ exc' = h.exc

Heap_Push(x) ==
    /\ cls \in {"MinHeap", "MaxHeap"}
    /\ exc = "none"
    /\ Len(heap) < Heap_MaxLen
    /\ HeapCommit(IF cls = "MinHeap" THEN MinHeap_push(HeapSelf, x) ELSE MaxHeap_push(HeapSelf, x))
    /\ last' = [op |-> "push", value |-> x, expect |-> None]
    /\ ref' = RefInsert(ref, x)
    /\ UNCHANGED <<cls, cache_fields, deque, bit, seg, later>>

Heap_Pop ==
    /\ cls \in {"MinHeap", "MaxHeap"}
    /\ exc = "none"
    /\ HeapCommit(IF cls = "MinHeap" THEN MinHeap_pop(HeapSelf) ELSE MaxHeap_pop(HeapSelf))
    /\ last' = [op |-> "pop", value |-> None,
                expect |-> IF ref = <<>> THEN None ELSE RefBest(ref)]
    /\ ref' = RefTake(ref)
    /\ UNCHANGED <<cls, cache_fields, deque, bit, seg, later>>

InitHeap ==
    /\ cls \in {"MinHeap", "MaxHeap"}
    /\ NoCache
    /\ deque = None
    /\ heap = <<>>
    /\ bit = None
    /\ seg = None
    /\ NoLater
    /\ ref = <<>>
    /\ ret = None
    /\ exc = "none"
    /\ last = [op |-> "__init__", value |-> None, expect |-> None]

NextHeap ==
    \/ \E x \in Heap_Vals : Heap_Push(x)
    \/ Heap_Pop

SpecHeap == InitHeap /\ [][NextHeap]_vars

(* The heap property with the root at index 1: the parent of index i is at *)
(* index i // 2.                                                           *)
HeapOrdered(a) ==
    \A i \in 2..Len(a) :
        IF cls = "MinHeap" THEN a[i] >= a[i \div 2] ELSE a[i] <= a[i \div 2]

(* C18: MinHeap (MaxHeap): after every push and pop the list has the heap  *)
(* property; its elements are, as a multiset, the elements pushed and not  *)
(* yet popped; top() is their minimum (maximum); pop returned that element *)
(* and removed one copy of it; pop raises only on an empty heap.           *)
C18_HeapOrderAndExtremum ==
    cls \in {"MinHeap", "MaxHeap"} =>
        /\ HeapOrdered(heap)
        /\ Sorted(heap) = ref
        /\ Heap_size(heap) = Len(ref)
        /\ ref # <<>> => Heap_top(heap) = RefBest(ref)
        /\ (last.op = "pop" /\ exc = "none") => ret = last.expect
        /\ exc # "none" => (last.op = "pop" /\ exc = "IndexError" /\ heap = <<>>)

C18_Witness ==
    /\ cls = "MinHeap" /\ exc = "none"
    /\ last.op = "pop" /\ ret = 1
    /\ heap = <<1, 3, 2, 3>>
    /\ ref = <<1, 2, 3, 3>>

(***************************************************************************)
(* src/ds/binary_indexed_tree.py: BinaryIndexedTree                        *)
(***************************************************************************)

BIT_NVals == 2     \* the array elements and the values written are 1..BIT_NVals
BIT_MaxLen == 4    \* the tree is built from an array of 1..BIT_MaxLen elements

BIT_Vals == 1..BIT_NVals

(* a[i] = v of a Python list, i >= 0.                                      *)
PySet(a, i, v) == [a EXCEPT ![i + 1] = v]

(* idx & -idx for idx > 0: the lowest set bit of idx.                      *)
RECURSIVE AndNeg(_)
AndNeg(idx) == IF idx % 2 = 1 THEN 1 ELSE 2 * AndNeg(idx \div 2)

(* __init__, the for loop of lines 36-39, from idx on.                     *)
RECURSIVE BinaryIndexedTree_build(_, _)
BinaryIndexedTree_build(binary_idx_tree, idx) ==
    IF idx > Len(binary_idx_tree) THEN binary_idx_tree
    ELSE LET parent_idx == idx + AndNeg(idx)
         IN BinaryIndexedTree_build(
                IF parent_idx < Len(binary_idx_tree)
                THEN PySet(binary_idx_tree, parent_idx - 1,
                           PyItem(binary_idx_tree, parent_idx - 1)
                               + PyItem(binary_idx_tree, idx - 1))
                ELSE binary_idx_tree,
                idx + 1)

BinaryIndexedTree_init(arr) ==
    [arr |-> arr, binary_idx_tree |-> BinaryIndexedTree_build(arr, 1)]

BITSelf == [arr |-> bit.arr, binary_idx_tree |-> bit.binary_idx_tree,
            ret |-> None, exc |-> "none"]

(* update, the while loop of lines 60-62.                                  *)
RECURSIVE BinaryIndexedTree_propagate(_, _, _)
BinaryIndexedTree_propagate(binary_idx_tree, idx, net_chg) ==
    IF idx <= Len(binary_idx_tree)
    THEN BinaryIndexedTree_propagate(
             PySet(binary_idx_tree, idx - 1, PyItem(binary_idx_tree, idx - 1) + net_chg),
             idx + AndNeg(idx), net_chg)
    ELSE binary_idx_tree

BinaryIndexedTree_update(b, idx, val) ==
    LET net_chg == val - PyItem(b.arr, idx)
    IN IF net_chg = 0 THEN Return(b, None)
       ELSE Return([b EXCEPT !.arr = PySet(b.arr, idx, val),
                             !.binary_idx_tree =
                                 BinaryIndexedTree_propagate(b.binary_idx_tree, idx + 1, net_chg)],
                   None)

BinaryIndexedTree_setitem(b, idx, val) == BinaryIndexedTree_update(b, idx, val)

(* _range_query, the while loop of lines 83-85 with end already 1-indexed. *)
RECURSIVE BinaryIndexedTree_prefix(_, _)
BinaryIndexedTree_prefix(binary_idx_tree, end) ==
    IF end > 0
    THEN PyItem(binary_idx_tree, end - 1)
             + BinaryIndexedTree_prefix(binary_idx_tree, end - AndNeg(end))
    ELSE 0

BinaryIndexedTree__range_query(b, end) == BinaryIndexedTree_prefix(b.binary_idx_tree, end + 1)

BinaryIndexedTree_range_query(b, start, end) ==
    IF ~(start <= end) THEN Raise(b, "AssertionError")
    ELSE IF ~(end < Len(b.binary_idx_tree)) THEN Raise(b, "AssertionError")
    ELSE IF start = end THEN Return(b, PyItem(b.arr, end))
    ELSE LET ans == BinaryIndexedTree__range_query(b, end)
         IN Return(b, IF start > 0
                      THEN ans - BinaryIndexedTree__range_query(b, start - 1)
                      ELSE ans)

BinaryIndexedTree_len(b) == Len(b.binary_idx_tree)

(* ---- the calls ---- *)

(* sum(a[start:end + 1]) of a Python list.                                 *)
RECURSIVE PySum(_, _, _)
PySum(a, start, end) ==
    IF start > end THEN 0 ELSE PyItem(a, start) + PySum(a, start + 1, end)

BITCommit(b) ==
    /\ bit' = [arr |-> b.arr, binary_idx_tree |-> b.binary_idx_tree]
    /\ ret' = b.ret
    /\ exc' = b.exc

BITCall(op, idx, val, start, end) ==
    [op |-> op, idx |-> idx, val |-> val, start |-> start, end |-> end]

BIT_Update(idx, val) ==
    /\ cls = "BinaryIndexedTree"
    /\ exc = "none"
    /\ BITCommit(BinaryIndexedTree_update(BITSelf, idx, val))
    /\ last' = BITCall("update", idx, val, None, None)
    /\ ref' = PySet(ref, idx, val)
    /\ UNCHANGED <<cls, cache_fields, deque, heap, seg, later>>

BIT_SetItem(idx, val) ==
    /\ cls = "BinaryIndexedTree"
    /\ exc = "none"
    /\ BITCommit(BinaryIndexedTree_setitem(BITSelf, idx, val))
    /\ last' = BITCall("__setitem__", idx, val, None, None)
    /\ ref' = PySet(ref, idx, val)
    /\ UNCHANGED <<cls, cache_fields, deque, heap, seg, later>>

BIT_RangeQuery(start, end) ==
    /\ cls = "BinaryIndexedTree"
    /\ exc = "none"
    /\ BITCommit(BinaryIndexedTree_range_query(BITSelf, start, end))
    /\ last' = BITCall("range_query", None, None, start, end)
    /\ UNCHANGED <<cls, cache_fields, deque, heap, seg, ref, later>>

InitBIT ==
    /\ cls = "BinaryIndexedTree"
    /\ NoCache
    /\ deque = None
    /\ heap = None
    /\ seg = None
    /\ NoLater
    /\ \E n \in 1..BIT_MaxLen : \E arr \in [1..n -> BIT_Vals] :
          /\ bit = BinaryIndexedTree_init(arr)
          /\ ref = arr
    /\ ret = None
    /\ exc = "none"
    /\ last = BITCall("__init__", None, None, None, None)

NextBIT ==
    \/ \E idx \in 0..(Len(ref) - 1) : \E val \in BIT_Vals : BIT_Update(idx, val)
    \/ \E idx \in 0..(Len(ref) - 1) : \E val \in BIT_Vals : BIT_SetItem(idx, val)
    \/ \E start \in 0..(Len(ref) - 1) : \E end \in start..(Len(ref) - 1) :
          BIT_RangeQuery(start, end)

SpecBIT == InitBIT /\ [][NextBIT]_vars

(* C16: BinaryIndexedTree: after construction from a non-empty array and   *)
(* after every update(idx, val) or tree[idx] = val, range_query(start,     *)
(* end) is the sum of the elements start..end of the array as updated, for *)
(* every 0 <= start <= end < len(arr).                                     *)
C16_RangeQueryIsSum ==
    cls = "BinaryIndexedTree" =>
        /\ bit.arr = ref
        /\ BinaryIndexedTree_len(BITSelf) = Len(ref)
        /\ \A start \in 0..(Len(ref) - 1) : \A end \in start..(Len(ref) - 1) :
              LET q == BinaryIndexedTree_range_query(BITSelf, start, end)
              IN q.exc = "none" /\ q.ret = PySum(ref, start, end)

(***************************************************************************)
(* src/ds/segment_tree.py: SegmentTree                                     *)
(***************************************************************************)

Seg_NVals == 2     \* the array elements and the values written are 1..Seg_NVals
Seg_MaxLen == 4    \* the internal array never grows beyond Seg_MaxLen elements

Seg_Vals == 1..Seg_NVals

(* The evaluation functions the calls are made with.                       *)
Seg_Funcs == {"min", "max", "sum"}

(* self.func_dict[eval_func](x, y), lines 65.                              *)
func_dict(eval_func, x, y) ==
    CASE eval_func = "min" -> (IF x <= y THEN x ELSE y)
      [] eval_func = "max" -> (IF x >= y THEN x ELSE y)
      [] eval_func = "sum" -> x + y

(* A SegmentTreeNode object. The nodes of a tree are kept in seg.nodes and *)
(* a node is referred to by its position there; the nodes of a tree that   *)
(* was replaced are garbage.                                               *)
SegmentTreeNode(start, end, val, left, right) ==
    [start |-> start, end |-> end, val |-> val, left |-> left, right |-> right]

(* a.insert(idx, v) and a.pop(idx) of a Python list, 0 <= idx <= len(a).   *)
PyInsert(a, idx, v) == SubSeq(a, 1, idx) \o <<v>> \o SubSeq(a, idx + 1, Len(a))

PyDelete(a, idx) == SubSeq(a, 1, idx) \o SubSeq(a, idx + 2, Len(a))

(* _build_tree: the nodes created are appended to nodes; the result is the *)
(* extended nodes and the root node made.                                  *)
RECURSIVE SegmentTree__build_tree(_, _, _, _, _)
SegmentTree__build_tree(arr, eval_func, ns, start, end) ==
    LET n == end - start + 1
    IN IF n = 0 THEN [nodes |-> ns, root |-> None]
       ELSE IF n = 1
       THEN [nodes |-> Append(ns, SegmentTreeNode(start, end, PyItem(arr, start), None, None)),
             root |-> Len(ns) + 1]
       ELSE LET n_L == n - n \div 2
                left == SegmentTree__build_tree(arr, eval_func, ns, start, start + n_L - 1)
                right == SegmentTree__build_tree(arr, eval_func, left.nodes, start + n_L, end)
                val == func_dict(eval_func, right.nodes[left.root].val,
                                 right.nodes[right.root].val)
            IN [nodes |-> Append(right.nodes,
                                 SegmentTreeNode(start, end, val, left.root, right.root)),
                root |-> Len(right.nodes) + 1]

SegmentTree_build_tree(s, arr, eval_func) ==
    IF ~(Len(arr) > 0) THEN Raise(s, "AssertionError")
    ELSE IF eval_func \notin Seg_Funcs THEN Raise([s EXCEPT !.arr = arr], "ValueError")
    ELSE LET built == SegmentTree__build_tree(arr, eval_func, <<>>, 0, Len(arr) - 1)
         IN Return([s EXCEPT !.arr = arr, !.eval_func = eval_func, !.n = Len(arr),
                             !.seg_tree = built.root, !.nodes = built.nodes], None)

SegmentTree_init(arr, eval_func) ==
    LET s == SegmentTree_build_tree(
                 [eval_func |-> "", arr |-> <<>>, n |-> 0, seg_tree |-> None, nodes |-> <<>>,
                  ret |-> None, exc |-> "none"], arr, eval_func)
    IN [s EXCEPT !.n = Len(arr)]

SegSelf == [eval_func |-> seg.eval_func, arr |-> seg.arr, n |-> seg.n,
            seg_tree |-> seg.seg_tree, nodes |-> seg.nodes,
            ret |-> None, exc |-> "none"]

SegmentTree_insert(s, idx, val) ==
    IF ~(0 <= idx /\ idx <= s.n) THEN Raise(s, "AssertionError")
    ELSE LET arr == PyInsert(s.arr, idx, val)
         IN SegmentTree_build_tree([s EXCEPT !.arr = arr], arr, s.eval_func)

SegmentTree_append(s, val) == SegmentTree_insert(s, s.n, val)

(* pop(idx): the argument is <<>> when it is left out (idx=None) and <<i>>  *)
(* when the index i is given.                                              *)
SegmentTree_pop(s, idx_arg) ==
    LET idx == IF idx_arg = <<>> THEN s.n - 1 ELSE idx_arg[1]
    IN IF ~(0 <= idx /\ idx <= s.n - 1) THEN Raise(s, "AssertionError")
       ELSE LET ans == PyItem(s.arr, idx)
                arr == PyDelete(s.arr, idx)
                t == SegmentTree_build_tree([s EXCEPT !.arr = arr], arr, s.eval_func)
            IN IF t.exc # "none" THEN t ELSE Return(t, ans)

(* update, the while loop of lines 220-222: the leaf reached and the nodes *)
(* passed on the way.                                                      *)
RECURSIVE SegmentTree_descend(_, _, _, _)
SegmentTree_descend(ns, node, idx, node_stack) ==
    IF ns[node].start # idx \/ ns[node].end # idx
    THEN SegmentTree_descend(ns,
                             IF idx <= ns[ns[node].left].end
                             THEN ns[node].left ELSE ns[node].right,
                             idx, Append(node_stack, node))
    ELSE [node |-> node, node_stack |-> node_stack]

(* A mutation of SegmentTree_refresh: the stack is emptied from the front. *)
RECURSIVE SegmentTree_refresh_fifo(_, _, _)
SegmentTree_refresh_fifo(ns, eval_func, node_stack) ==
    IF node_stack = <<>> THEN ns
    ELSE LET node == Head(node_stack)
             val == func_dict(eval_func, ns[ns[node].left].val,
                              ns[ns[node].right].val)
         IN SegmentTree_refresh_fifo([ns EXCEPT ![node].val = val], eval_func,
                                     Tail(node_stack))

(* update, the while loop of lines 226-228.                                *)
RECURSIVE SegmentTree_refresh(_, _, _)
SegmentTree_refresh(ns, eval_func, node_stack) ==
    IF node_stack = <<>> THEN ns
    ELSE LET node == node_stack[Len(node_stack)]
             val == func_dict(eval_func, ns[ns[node].left].val,
                              ns[ns[node].right].val)
         IN SegmentTree_refresh([ns EXCEPT ![node].val = val], eval_func,
                                SubSeq(node_stack, 1, Len(node_stack) - 1))

SegmentTree_update(s, idx, val) ==
    LET root == s.seg_tree
    IN IF ~(idx >= 0 \/ idx <= s.nodes[root].end) THEN Raise(s, "AssertionError")
       ELSE IF PyItem(s.arr, idx) = val THEN Return(s, None)
       ELSE LET arr == PySet(s.arr, idx, val)
                found == SegmentTree_descend(s.nodes, root, idx, <<>>)
                leafed == [s.nodes EXCEPT ![found.node].val = val]
            IN Return([s EXCEPT !.arr = arr,
                                !.nodes = SegmentTree_refresh(leafed, s.eval_func,
                                                              found.node_stack)],
                      None)

SegmentTree_setitem(s, idx, val) == SegmentTree_update(s, idx, val)

(* range_query(start, end, root); root None stands for the root of the     *)
(* tree. The elements are at least 1, so an answer is never None.          *)
RECURSIVE SegmentTree_range_query(_, _, _, _)
SegmentTree_range_query(s, start, end, root_arg) ==
    LET root == IF root_arg = None THEN s.seg_tree ELSE root_arg
        r == s.nodes[root]
    IN IF ~(r.start <= start /\ start <= r.end) THEN Raise(s, "AssertionError")
       ELSE IF ~(r.start <= end /\ end <= r.end) THEN Raise(s, "AssertionError")
       ELSE IF ~(start <= end) THEN Raise(s, "AssertionError")
       ELSE IF start = r.start /\ end = r.end THEN Return(s, r.val)
       ELSE LET left == s.nodes[r.left]
                right == s.nodes[r.right]
                LHS_upper_idx == IF end <= left.end THEN end ELSE left.end
                LHS_ans == IF start <= left.end
                           THEN SegmentTree_range_query(s, start, LHS_upper_idx, r.left)
                           ELSE Return(s, None)
                RHS_lower_idx == IF start >= right.start THEN start ELSE right.start
                RHS_ans == IF end >= right.start
                           THEN SegmentTree_range_query(s, RHS_lower_idx, end, r.right)
                           ELSE Return(s, None)
            IN IF LHS_ans.exc # "none" THEN LHS_ans
               ELSE IF RHS_ans.exc # "none" THEN RHS_ans
               ELSE IF LHS_ans.ret = None THEN RHS_ans
               ELSE IF RHS_ans.ret = None THEN LHS_ans
               ELSE Return(s, func_dict(s.eval_func, LHS_ans.ret, RHS_ans.ret))

SegmentTree_len(s) == s.n

(* ---- the calls ---- *)

SetMax(S) == CHOOSE x \in S : \A y \in S : y <= x

(* sum / min / max of a[start:end + 1] of a Python list.                   *)
PyFold(eval_func, a, start, end) ==
    LET part == {PyItem(a, i) : i \in start..end}
    IN CASE eval_func = "sum" -> PySum(a, start, end)
         [] eval_func = "min" -> SetMin(part)
         [] eval_func = "max" -> SetMax(part)

SegCommit(s) ==
    /\ seg' = [eval_func |-> s.eval_func, arr |-> s.arr, n |-> s.n,
               seg_tree |-> s.seg_tree, nodes |-> s.nodes]
    /\ ret' = s.ret
    /\ exc' = s.exc

SegCall(op, idx, val, start, end, expect) ==
    [op |-> op, idx |-> idx, val |-> val, start |-> start, end |-> end, expect |-> expect]

Seg_Update(idx, val) ==
    /\ cls = "SegmentTree"
    /\ exc = "none"
    /\ SegCommit(SegmentTree_update(SegSelf, idx, val))
    /\ last' = SegCall("update", <<idx>>, val, None, None, None)
    /\ ref' = PySet(ref, idx, val)
    /\ UNCHANGED <<cls, cache_fields, deque, heap, bit, later>>

Seg_SetItem(idx, val) ==
    /\ cls = "SegmentTree"
    /\ exc = "none"
    /\ SegCommit(SegmentTree_setitem(SegSelf, idx, val))
    /\ last' = SegCall("__setitem__", <<idx>>, val, None, None, None)
    /\ ref' = PySet(ref, idx, val)
    /\ UNCHANGED <<cls, cache_fields, deque, heap, bit, later>>

Seg_Insert(idx, val) ==
    /\ cls = "SegmentTree"
    /\ exc = "none"
    /\ Len(seg.arr) < Seg_MaxLen
    /\ SegCommit(SegmentTree_insert(SegSelf, idx, val))
    /\ last' = SegCall("insert", <<idx>>, val, None, None, None)
    /\ ref' = PyInsert(ref, idx, val)
    /\ UNCHANGED <<cls, cache_fields, deque, heap, bit, later>>

Seg_Append(val) ==
    /\ cls = "SegmentTree"
    /\ exc = "none"
    /\ Len(seg.arr) < Seg_MaxLen
    /\ SegCommit(SegmentTree_append(SegSelf, val))
    /\ last' = SegCall("append", <<>>, val, None, None, None)
    /\ ref' = Append(ref, val)
    /\ UNCHANGED <<cls, cache_fields, deque, heap, bit, later>>

Seg_Pop(idx_arg) ==
    /\ cls = "SegmentTree"
    /\ exc = "none"
    /\ LET at == IF idx_arg = <<>> THEN Len(ref) ELSE idx_arg[1] + 1
       IN /\ SegCommit(SegmentTree_pop(SegSelf, idx_arg))
          /\ last' = SegCall("pop", idx_arg, None, None, None, ref[at])
          /\ ref' = [i \in 1..(Len(ref) - 1) |-> IF i < at THEN ref[i] ELSE ref[i + 1]]
    /\ UNCHANGED <<cls, cache_fields, deque, heap, bit, later>>

Seg_RangeQuery(start, end) ==
    /\ cls = "SegmentTree"
    /\ exc = "none"
    /\ SegCommit(SegmentTree_range_query(SegSelf, start, end, None))
    /\ last' = SegCall("range_query", <<>>, None, start, end, None)
    /\ UNCHANGED <<cls, cache_fields, deque, heap, bit, ref, later>>

InitSeg ==
    /\ cls = "SegmentTree"
    /\ NoCache
    /\ deque = None
    /\ heap = None
    /\ bit = None
    /\ NoLater
    /\ \E n \in 1..Seg_MaxLen : \E arr \in [1..n -> Seg_Vals] : \E eval_func \in Seg_Funcs :
          LET s == SegmentTree_init(arr, eval_func)
          IN /\ seg = [eval_func |-> s.eval_func, arr |-> s.arr, n |-> s.n,
                       seg_tree |-> s.seg_tree, nodes |-> s.nodes]
             /\ ref = arr
    /\ ret = None
    /\ exc = "none"
    /\ last = SegCall("__init__", <<>>, None, None, None, None)

NextSeg ==
    \/ \E idx \in 0..(Len(ref) - 1) : \E val \in Seg_Vals : Seg_Update(idx, val)
    \/ \E idx \in 0..(Len(ref) - 1) : \E val \in Seg_Vals : Seg_SetItem(idx, val)
    \/ \E idx \in 0..Len(ref) : \E val \in Seg_Vals : Seg_Insert(idx, val)
    \/ \E val \in Seg_Vals : Seg_Append(val)
    \/ \E idx_arg \in {<<>>} \cup {<<i>> : i \in 0..(Len(ref) - 1)} : Seg_Pop(idx_arg)
    \/ \E start \in 0..(Len(ref) - 1) : \E end \in start..(Len(ref) - 1) :
          Seg_RangeQuery(start, end)

SpecSeg == InitSeg /\ [][NextSeg]_vars

(* C17: SegmentTree with eval_func sum, min or max: after construction and *)
(* after every update, insert, append and pop that leaves the array        *)
(* non-empty, the internal array is the array as changed, len(tree) is its *)
(* length, and range_query(start, end) is the function folded over the     *)
(* elements start..end, for every 0 <= start <= end < n; pop returned the  *)
(* element removed; a call raises only when pop empties the array.         *)
C17_SegmentRangeQueryIsFold ==
    cls = "SegmentTree" =>
        /\ exc = "none" =>
              /\ seg.arr = ref
              /\ ref # <<>>
              /\ SegmentTree_len(SegSelf) = Len(ref)
              /\ \A start \in 0..(Len(ref) - 1) : \A end \in start..(Len(ref) - 1) :
                    LET q == SegmentTree_range_query(SegSelf, start, end, None)
                    IN /\ q.exc = "none"
                       /\ q.ret = PyFold(seg.eval_func, ref, start, end)
              /\ last.op = "pop" => ret = last.expect
              /\ last.op = "range_query"
                    => ret = PyFold(seg.eval_func, ref, last.start, last.end)
        /\ exc # "none" => (last.op = "pop" /\ ref = <<>>)

C17_Witness ==
    /\ cls = "SegmentTree" /\ exc = "none"
    /\ seg.eval_func = "min"
    /\ last.op = "update" /\ last.idx = <<1>> /\ last.val = 1
    /\ seg.arr = <<2, 1, 2, 2>>
    /\ SegmentTree_range_query(SegSelf, 1, 2, None).ret = 1
    /\ SegmentTree_range_query(SegSelf, 0, 3, None).ret = 1

(***************************************************************************)
(* src/ds/disjoint_sets.py: DisjointSets                                   *)
(***************************************************************************)

DS_MaxN == 4   \* DisjointSets(n) is constructed with n in 0..DS_MaxN

(* __init__ *)
DisjointSets_init(n) ==
    [parent |-> [i \in 1..n |-> i - 1],
     rank |-> [i \in 1..n |-> 1],
     n_sets |-> n,
     n |-> n]

DSSelf == [parent |-> djs.parent, rank |-> djs.rank, n_sets |-> djs.n_sets, n |-> djs.n,
           ret |-> None, exc |-> "none"]

(* find_root: the root of x is returned in ret; the path from x is         *)
(* compressed on the way back.                                             *)
RECURSIVE DisjointSets_find_root(_, _)
DisjointSets_find_root(s, x) ==
    IF x = PyItem(s.parent, x) THEN Return(s, x)
    ELSE LET found == DisjointSets_find_root(s, PyItem(s.parent, x))
             common_root == found.ret
         IN Return([found EXCEPT !.parent = PySet(found.parent, x, common_root)], common_root)

(* A mutation of DisjointSets_join_sets: the nodes x and y are linked      *)
(* instead of their roots.                                                 *)
DisjointSets_join_sets_link_nodes(s, x, y) ==
    LET fx == DisjointSets_find_root(s, x)
        root_x == fx.ret
        fy == DisjointSets_find_root(fx, y)
        root_y == fy.ret
    IN IF root_x # root_y
       THEN LET linked ==
                    IF PyItem(fy.rank, root_x) > PyItem(fy.rank, root_y)
                    THEN [fy EXCEPT !.parent = PySet(fy.parent, y, root_x)]
                    ELSE IF PyItem(fy.rank, root_y) > PyItem(fy.rank, root_x)
                    THEN [fy EXCEPT !.parent = PySet(fy.parent, x, root_y)]
                    ELSE [fy EXCEPT !.parent = PySet(fy.parent, y, root_x),
                                    !.rank = PySet(fy.rank, root_x, PyItem(fy.rank, root_x) + 1)]
            IN Return([linked EXCEPT !.n_sets = fy.n_sets - 1], None)
       ELSE Return(fy, None)

DisjointSets_join_sets(s, x, y) ==
    LET fx == DisjointSets_find_root(s, x)
        root_x == fx.ret
        fy == DisjointSets_find_root(fx, y)
        root_y == fy.ret
    IN IF root_x # root_y
       THEN LET linked ==
                    IF PyItem(fy.rank, root_x) > PyItem(fy.rank, root_y)
                    THEN [fy EXCEPT !.parent = PySet(fy.parent, root_y, root_x)]
                    ELSE IF PyItem(fy.rank, root_y) > PyItem(fy.rank, root_x)
                    THEN [fy EXCEPT !.parent = PySet(fy.parent, root_x, root_y)]
                    ELSE [fy EXCEPT !.parent = PySet(fy.parent, root_y, root_x),
                                    !.rank = PySet(fy.rank, root_x, PyItem(fy.rank, root_x) + 1)]
            IN Return([linked EXCEPT !.n_sets = fy.n_sets - 1], None)
       ELSE Return(fy, None)

DisjointSets_is_connected(s, x, y) ==
    LET fx == DisjointSets_find_root(s, x)
        fy == DisjointSets_find_root(fx, y)
    IN Return(fy, fx.ret = fy.ret)

(* get_sets, the for loop of lines 71-72 from val on; dj_sets is the       *)
(* defaultdict as a sequence of <<root, list>> in insertion order.         *)
RECURSIVE DisjointSets_collect(_, _, _)
DisjointSets_collect(s, val, dj_sets) ==
    IF val >= s.n THEN [s |-> s, dj_sets |-> dj_sets]
    ELSE LET found == DisjointSets_find_root(s, val)
             at == {i \in DOMAIN dj_sets : dj_sets[i][1] = found.ret}
         IN DisjointSets_collect(
                found, val + 1,
                IF at = {}
                THEN Append(dj_sets, <<found.ret, <<val>>>>)
                ELSE LET i == CHOOSE i \in at : TRUE
                     IN [dj_sets EXCEPT ![i] = <<found.ret, Append(dj_sets[i][2], val)>>])

DisjointSets_get_sets(s) ==
    LET done == DisjointSets_collect(s, 0, <<>>)
    IN Return(done.s, [i \in DOMAIN done.dj_sets |-> done.dj_sets[i][2]])

(* ---- the calls ---- *)

(* The reference: the classes of the closure of the pairs joined so far,   *)
(* as a set of sets of elements.                                           *)
ClassOf(classes, x) == CHOOSE c \in classes : x \in c

RefJoin(classes, x, y) ==
    (classes \ {ClassOf(classes, x), ClassOf(classes, y)})
        \cup {ClassOf(classes, x) \cup ClassOf(classes, y)}

DSCommit(s) ==
    /\ djs' = [parent |-> s.parent, rank |-> s.rank, n_sets |-> s.n_sets, n |-> s.n]
    /\ ret' = s.ret
    /\ exc' = s.exc

DSCall(op, x, y) == [op |-> op, x |-> x, y |-> y]

DS_FindRoot(x) ==
    /\ cls = "DisjointSets"
    /\ exc = "none"
    /\ DSCommit(DisjointSets_find_root(DSSelf, x))
    /\ last' = DSCall("find_root", x, None)
    /\ UNCHANGED <<cls, cache_fields, deque, heap, bit, seg, trie, llist, bst, ref>>

DS_JoinSets(x, y) ==
    /\ cls = "DisjointSets"
    /\ exc = "none"
    /\ DSCommit(DisjointSets_join_sets(DSSelf, x, y))
    /\ last' = DSCall("join_sets", x, y)
    /\ ref' = RefJoin(ref, x, y)
    /\ UNCHANGED <<cls, cache_fields, deque, heap, bit, seg, trie, llist, bst>>

DS_IsConnected(x, y) ==
    /\ cls = "DisjointSets"
    /\ exc = "none"
    /\ DSCommit(DisjointSets_is_connected(DSSelf, x, y))
    /\ last' = DSCall("is_connected", x, y)
    /\ UNCHANGED <<cls, cache_fields, deque, heap, bit, seg, trie, llist, bst, ref>>

DS_GetSets ==
    /\ cls = "DisjointSets"
    /\ exc = "none"
    /\ DSCommit(DisjointSets_get_sets(DSSelf))
    /\ last' = DSCall("get_sets", None, None)
    /\ UNCHANGED <<cls, cache_fields, deque, heap, bit, seg, trie, llist, bst, ref>>

InitDS ==
    /\ cls = "DisjointSets"
    /\ NoCache
    /\ deque = None /\ heap = None /\ bit = None /\ seg = None
    /\ trie = None /\ llist = None /\ bst = None
    /\ \E n \in 0..DS_MaxN :
          /\ djs = DisjointSets_init(n)
          /\ ref = {{x} : x \in 0..(n - 1)}
    /\ ret = None
    /\ exc = "none"
    /\ last = DSCall("__init__", None, None)

NextDS ==
    \/ \E x \in 0..(djs.n - 1) : DS_FindRoot(x)
    \/ \E x \in 0..(djs.n - 1) : \E y \in 0..(djs.n - 1) : DS_JoinSets(x, y)
    \/ \E x \in 0..(djs.n - 1) : \E y \in 0..(djs.n - 1) : DS_IsConnected(x, y)
    \/ DS_GetSets

SpecDS == InitDS /\ [][NextDS]_vars

(* C21: DisjointSets(n): after every join_sets, find_root, is_connected    *)
(* and get_sets call, is_connected(x, y) is True exactly when x and y are  *)
(* in one class of the closure of the pairs joined; get_sets returns those *)
(* classes, each element once; n_sets is the number of classes; and the    *)
(* call made returned accordingly. What the calls show is thus fixed by    *)
(* the pairs joined: find_root, is_connected, get_sets and a join_sets of  *)
(* two elements of one set leave it as it was.                             *)
C21_DisjointSetsPartition ==
    cls = "DisjointSets" =>
        LET lists == DisjointSets_get_sets(DSSelf).ret
            elems == 0..(djs.n - 1)
        IN /\ exc = "none"
           /\ \A x \in elems : \A y \in elems :
                 DisjointSets_is_connected(DSSelf, x, y).ret = (\E c \in ref : x \in c /\ y \in c)
           /\ {Range(lists[i]) : i \in DOMAIN lists} = ref
           /\ \A i \in DOMAIN lists : Len(lists[i]) = Cardinality(Range(lists[i]))
           /\ Cardinality(ref) = Len(lists)
           /\ UNION ref = elems
           /\ djs.n_sets = Cardinality(ref)
           /\ last.op = "is_connected"
                 => ret = (\E c \in ref : last.x \in c /\ last.y \in c)
           /\ last.op = "find_root"
                 => /\ ret \in ClassOf(ref, last.x)
                    /\ \A z \in ClassOf(ref, last.x) :
                          DisjointSets_find_root(DSSelf, z).ret = ret
           /\ last.op = "get_sets" => ret = lists
           /\ last.op = "join_sets" => ClassOf(ref, last.x) = ClassOf(ref, last.y)

(* A find_root that compressed a path of two links.                        *)
C21_Witness ==
    /\ cls = "DisjointSets" /\ exc = "none"
    /\ last.op = "find_root" /\ last.x = 3
    /\ ref = {{0, 1, 2, 3}}
    /\ djs.parent = <<0, 0, 0, 0>>
    /\ djs.rank[1] = 3

(***************************************************************************)
(* src/ds/trie.py: Trie                                                    *)
(***************************************************************************)

Trie_MaxWords == 3   \* insert is not called on a Trie holding Trie_MaxWords words

(* The words the calls are made with, letters being numbers: words sharing *)
(* a prefix, a word that is a prefix of others, and unrelated words.       *)
Trie_Words == {<<1>>, <<1, 1>>, <<1, 2>>, <<1, 2, 1>>, <<2>>, <<2, 1>>}

(* A TrieNode object, without its children: the nodes of a Trie are kept   *)
(* as a function from the path of letters leading to a node (<<>> for the  *)
(* root) to the node, and node.children[L] of the node at path p is the    *)
(* node at path p + L. The order of a children dict is not kept.           *)
TrieNode(n, n_prefix) == [n |-> n, n_prefix |-> n_prefix]

(* Trie.__init__ with words=None *)
Trie_init == (<<>> :> TrieNode(0, 0))

TrieSelf == [node |-> trie, ret |-> None, exc |-> "none"]

IsPrefixOf(p, w) == Len(p) <= Len(w) /\ SubSeq(w, 1, Len(p)) = p

(* insert, the for loop of lines 41-47 from index i on.                    *)
RECURSIVE Trie_insert_loop(_, _, _)
Trie_insert_loop(nd, word, i) ==
    IF i >= Len(word) THEN nd
    ELSE LET word_len == Len(word)
             child == SubSeq(word, 1, i + 1)
             ends == IF i = word_len - 1 THEN 1 ELSE 0
         IN Trie_insert_loop(
                IF child \notin DOMAIN nd
                THEN SetKey(nd, child, TrieNode(ends, 1))
                ELSE [nd EXCEPT ![child].n = @ + ends, ![child].n_prefix = @ + 1],
                word, i + 1)

Trie_insert(s, word) ==
    IF ~(Len(word) > 0) THEN Raise(s, "AssertionError")
    ELSE LET counted == [s.node EXCEPT ![<<>>].n_prefix = @ + 1]
         IN Return([s EXCEPT !.node = Trie_insert_loop(counted, word, 0)], None)

(* The loop of get_word_count and get_prefix_word_count: the node the      *)
(* letters of word lead to, if every letter is found.                      *)
RECURSIVE Trie_descend(_, _, _)
Trie_descend(nd, word, i) ==
    IF i >= Len(word) THEN [found |-> TRUE, node |-> word]
    ELSE IF SubSeq(word, 1, i + 1) \notin DOMAIN nd THEN [found |-> FALSE, node |-> <<>>]
    ELSE Trie_descend(nd, word, i + 1)

Trie_get_word_count(s, word) ==
    IF ~(Len(word) > 0) THEN Raise(s, "AssertionError")
    ELSE LET at == Trie_descend(s.node, word, 0)
         IN Return(s, IF at.found THEN s.node[at.node].n ELSE 0)

Trie_get_prefix_word_count(s, prefix) ==
    IF ~(Len(prefix) > 0) THEN Raise(s, "AssertionError")
    ELSE LET at == Trie_descend(s.node, prefix, 0)
         IN Return(s, IF at.found THEN s.node[at.node].n_prefix ELSE 0)

(* A mutation of Trie_remove_loop: the count of the last node is kept.     *)
RECURSIVE Trie_remove_loop_keep_n(_, _, _, _)
Trie_remove_loop_keep_n(nd, word, i, n_remove) ==
    IF i >= Len(word) THEN nd
    ELSE LET next_node == SubSeq(word, 1, i + 1)
         IN IF nd[next_node].n_prefix = n_remove
            THEN [p \in {q \in DOMAIN nd : ~IsPrefixOf(next_node, q)} |-> nd[p]]
            ELSE Trie_remove_loop_keep_n([nd EXCEPT ![next_node].n_prefix = @ - n_remove],
                                         word, i + 1, n_remove)

(* remove_word, the for loop of lines 105-113 from index i on, and line    *)
(* 114; del node.children[L] removes the node at that path and every node *)
(* below it.                                                               *)
RECURSIVE Trie_remove_loop(_, _, _, _)
Trie_remove_loop(nd, word, i, n_remove) ==
    IF i >= Len(word) THEN [nd EXCEPT ![word].n = @ - n_remove]
    ELSE LET next_node == SubSeq(word, 1, i + 1)
         IN IF nd[next_node].n_prefix = n_remove
            THEN [p \in {q \in DOMAIN nd : ~IsPrefixOf(next_node, q)} |-> nd[p]]
            ELSE Trie_remove_loop([nd EXCEPT ![next_node].n_prefix = @ - n_remove],
                                  word, i + 1, n_remove)

Trie_remove_word(s, word, remove_all) ==
    IF ~(Len(word) > 0) THEN Raise(s, "AssertionError")
    ELSE LET word_count == Trie_get_word_count(s, word).ret
         IN IF word_count = 0 THEN Return(s, None)
            ELSE LET n_remove == IF remove_all = TRUE THEN word_count ELSE 1
                     counted == [s.node EXCEPT ![<<>>].n_prefix = @ - n_remove]
                 IN Return([s EXCEPT !.node = Trie_remove_loop(counted, word, 0, n_remove)],
                           None)

Trie_len(s) == s.node[<<>>].n_prefix

(* ---- the calls ---- *)

(* The reference: the number of copies of each word, and sums over it.     *)
RECURSIVE RefTotal(_, _)
RefTotal(count, words) ==
    IF words = {} THEN 0
    ELSE LET w == CHOOSE w \in words : TRUE
         IN count[w] + RefTotal(count, words \ {w})

TrieCommit(s) ==
    /\ trie' = s.node
    /\ ret' = s.ret
    /\ exc' = s.exc

TrieCall(op, word, remove_all, same) ==
    [op |-> op, word |-> word, remove_all |-> remove_all, same |-> same]

Trie_Insert(word) ==
    /\ cls = "Trie"
    /\ exc = "none"
    /\ Trie_len(TrieSelf) < Trie_MaxWords
    /\ TrieCommit(Trie_insert(TrieSelf, word))
    /\ last' = TrieCall("insert", word, FALSE, FALSE)
    /\ ref' = [ref EXCEPT ![word] = @ + 1]
    /\ UNCHANGED <<cls, cache_fields, deque, heap, bit, seg, djs, llist, bst>>

Trie_RemoveWord(word, remove_all) ==
    /\ cls = "Trie"
    /\ exc = "none"
    /\ TrieCommit(Trie_remove_word(TrieSelf, word, remove_all))
    /\ last' = TrieCall("remove_word", word, remove_all,
                        Trie_remove_word(TrieSelf, word, remove_all).node = trie)
    /\ ref' = [ref EXCEPT ![word] = IF @ = 0 THEN 0 ELSE IF remove_all THEN 0 ELSE @ - 1]
    /\ UNCHANGED <<cls, cache_fields, deque, heap, bit, seg, djs, llist, bst>>

Trie_GetWordCount(word) ==
    /\ cls = "Trie"
    /\ exc = "none"
    /\ TrieCommit(Trie_get_word_count(TrieSelf, word))
    /\ last' = TrieCall("get_word_count", word, FALSE, TRUE)
    /\ UNCHANGED <<cls, cache_fields, deque, heap, bit, seg, djs, llist, bst, ref>>

Trie_GetPrefixWordCount(prefix) ==
    /\ cls = "Trie"
    /\ exc = "none"
    /\ TrieCommit(Trie_get_prefix_word_count(TrieSelf, prefix))
    /\ last' = TrieCall("get_prefix_word_count", prefix, FALSE, TRUE)
    /\ UNCHANGED <<cls, cache_fields, deque, heap, bit, seg, djs, llist, bst, ref>>

Trie_Len ==
    /\ cls = "Trie"
    /\ exc = "none"
    /\ TrieCommit(Return(TrieSelf, Trie_len(TrieSelf)))
    /\ last' = TrieCall("__len__", <<>>, FALSE, TRUE)
    /\ UNCHANGED <<cls, cache_fields, deque, heap, bit, seg, djs, llist, bst, ref>>

InitTrie ==
    /\ cls = "Trie"
    /\ NoCache
    /\ deque = None /\ heap = None /\ bit = None /\ seg = None
    /\ djs = None /\ llist = None /\ bst = None
    /\ trie = Trie_init
    /\ ref = [w \in Trie_Words |-> 0]
    /\ ret = None
    /\ exc = "none"
    /\ last = TrieCall("__init__", <<>>, FALSE, TRUE)

NextTrie ==
    \/ \E word \in Trie_Words : Trie_Insert(word)
    \/ \E word \in Trie_Words : \E remove_all \in BOOLEAN : Trie_RemoveWord(word, remove_all)
    \/ \E word \in Trie_Words : Trie_GetWordCount(word)
    \/ \E prefix \in Trie_Words : Trie_GetPrefixWordCount(prefix)
    \/ Trie_Len

SpecTrie == InitTrie /\ [][NextTrie]_vars

(* C22: Trie: after every insert(w) and remove_word(w, remove_all),        *)
(* get_word_count(w) is the number of copies of w inserted and not         *)
(* removed, len(trie) is the number of copies of all words, and            *)
(* get_prefix_word_count(p) is the number of copies of the words starting  *)
(* with p; the call made returned accordingly, and remove_word of a word   *)
(* without a copy left the Trie as it was.                                 *)
C22_TrieCountsCopies ==
    cls = "Trie" =>
        /\ exc = "none"
        /\ \A w \in Trie_Words : Trie_get_word_count(TrieSelf, w).ret = ref[w]
        /\ Trie_len(TrieSelf) = RefTotal(ref, Trie_Words)
        /\ \A p \in Trie_Words :
              Trie_get_prefix_word_count(TrieSelf, p).ret
                  = RefTotal(ref, {w \in Trie_Words : IsPrefixOf(p, w)})
        /\ last.op = "get_word_count" => ret = ref[last.word]
        /\ last.op = "get_prefix_word_count"
              => ret = RefTotal(ref, {w \in Trie_Words : IsPrefixOf(last.word, w)})
        /\ last.op = "__len__" => ret = RefTotal(ref, Trie_Words)
        /\ last.op \in {"insert", "remove_word"} => ret = None
        /\ (last.op = "remove_word" /\ last.same) => ref[last.word] = 0
        /\ (last.op = "remove_word" /\ ~last.same /\ last.remove_all) => ref[last.word] = 0

(* remove_word(<<1, 2>>) took one of two copies away while the longer word *)
(* <<1, 2, 1>> stays.                                                      *)
C22_Witness ==
    /\ cls = "Trie" /\ exc = "none"
    /\ last.op = "remove_word" /\ last.word = <<1, 2>> /\ ~last.remove_all /\ ~last.same
    /\ ref[<<1, 2>>] = 1
    /\ ref[<<1, 2, 1>>] = 1
    /\ trie[<<1, 2>>].n_prefix = 2

(***************************************************************************)
(* src/ds/linked_list.py: LinkedList, DoublyLinkedList                     *)
(***************************************************************************)

LL_MaxLen == 3   \* insert and append are not called on a list of LL_MaxLen nodes

(* The values the calls are made with.                                     *)
LL_Vals == {1, 2}

(* The list object with the outcome of the call being made. Nodes are kept *)
(* as for Deque, reference -> [val, prev_, next_]; a ListNode of           *)
(* LinkedList has no prev_, and the field stays None there.                *)
LLSelf == [n |-> llist.n, head |-> llist.head, tail |-> llist.tail, nodes |-> llist.nodes,
           ret |-> None, exc |-> "none"]

(* An optional index argument: <<>> when it is left out (index=None),      *)
(* <<i>> when the index i is given.                                        *)
IndexOr(index_arg, default) == IF index_arg = <<>> THEN default ELSE index_arg[1]

(* ---- LinkedList ---- *)

(* _get, the for loop of lines 52-53 with steps iterations to go; next_ of *)
(* None raises AttributeError.                                             *)
RECURSIVE LinkedList_walk(_, _, _, _)
LinkedList_walk(ns, prev_node, node, steps) ==
    IF steps = 0 THEN [prev_node |-> prev_node, node |-> node, exc |-> "none"]
    ELSE IF node = None THEN [prev_node |-> prev_node, node |-> node, exc |-> "AttributeError"]
    ELSE LinkedList_walk(ns, node, ns[node].next_, steps - 1)

LinkedList__get(s, index) ==
    IF index < 0 \/ index >= s.n
    THEN [prev_node |-> None, node |-> None, exc |-> "none"]
    ELSE LinkedList_walk(s.nodes, None, s.head, index)

LinkedList_get(s, index, return_value) ==
    LET got == LinkedList__get(s, index)
    IN IF got.exc # "none" THEN Raise(s, got.exc)
       ELSE IF got.node = None THEN Return(s, None)
       ELSE Return(s, IF return_value = TRUE THEN s.nodes[got.node].val ELSE got.node)

(* A mutation of LinkedList_insert: an insert at index 0 of a list with    *)
(* nodes is made after the head instead of before it.                      *)
LinkedList_insert_after_head(s, index_arg, val) ==
    IF val = None THEN Raise(s, "ValueError")
    ELSE LET index == IndexOr(index_arg, s.n)
         IN IF index < 0 \/ index > s.n THEN Raise(s, "IndexError")
            ELSE LET r == FreeRef(s.nodes)
                     s1 == IF index = 0
                           THEN IF s.head = None
                                THEN [s EXCEPT !.nodes = SetKey(@, r, ListNode(val, None, None)),
                                               !.head = r, !.tail = r]
                                ELSE [s EXCEPT !.nodes =
                                          SetKey([@ EXCEPT ![s.head].next_ = r], r,
                                                 ListNode(val, None, s.nodes[s.head].next_)),
                                               !.tail = IF s.tail = s.head THEN r ELSE s.tail]
                           ELSE IF index = s.n
                           THEN IF s.tail = None THEN Raise(s, "AttributeError")
                                ELSE [s EXCEPT !.nodes = SetKey([@ EXCEPT ![s.tail].next_ = r],
                                                                r, ListNode(val, None, None)),
                                               !.tail = r]
                           ELSE LET got == LinkedList__get(s, index)
                                IN IF got.exc # "none" \/ got.prev_node = None
                                   THEN Raise(s, "AttributeError")
                                   ELSE [s EXCEPT !.nodes =
                                             SetKey([@ EXCEPT ![got.prev_node].next_ = r],
                                                    r, ListNode(val, None, got.node))]
                 IN IF s1.exc # "none" THEN s1 ELSE Return([s1 EXCEPT !.n = @ + 1], None)

LinkedList_insert(s, index_arg, val) ==
    IF val = None THEN Raise(s, "ValueError")
    ELSE LET index == IndexOr(index_arg, s.n)
         IN IF index < 0 \/ index > s.n THEN Raise(s, "IndexError")
            ELSE LET r == FreeRef(s.nodes)
                     s1 == IF index = 0
                           THEN IF s.head = None
                                THEN [s EXCEPT !.nodes = SetKey(@, r, ListNode(val, None, None)),
                                               !.head = r, !.tail = r]
                                ELSE [s EXCEPT !.nodes = SetKey(@, r, ListNode(val, None, s.head)),
                                               !.head = r]
                           ELSE IF index = s.n
                           THEN IF s.tail = None THEN Raise(s, "AttributeError")
                                ELSE [s EXCEPT !.nodes = SetKey([@ EXCEPT ![s.tail].next_ = r],
                                                                r, ListNode(val, None, None)),
                                               !.tail = r]
                           ELSE LET got == LinkedList__get(s, index)
                                IN IF got.exc # "none" \/ got.prev_node = None
                                   THEN Raise(s, "AttributeError")
                                   ELSE [s EXCEPT !.nodes =
                                             SetKey([@ EXCEPT ![got.prev_node].next_ = r],
                                                    r, ListNode(val, None, got.node))]
                 IN IF s1.exc # "none" THEN s1 ELSE Return([s1 EXCEPT !.n = @ + 1], None)

LinkedList_append(s, val) == LinkedList_insert(s, <<s.n>>, val)

LinkedList_pop(s, index_arg) ==
    IF s.n = 0 THEN Raise(s, "IndexError")
    ELSE LET index == IndexOr(index_arg, s.n - 1)
             got == LinkedList__get(s, index)
             prev_node == got.prev_node
             node == got.node
         IN IF got.exc # "none" THEN Raise(s, got.exc)
            ELSE IF node = None THEN Raise(s, "IndexError")
            ELSE LET ans == s.nodes[node].val
                     next_node == s.nodes[node].next_
                     s1 == IF s.n = 1 THEN [s EXCEPT !.head = None, !.tail = None]
                           ELSE IF prev_node = None THEN [s EXCEPT !.head = next_node]
                           ELSE IF next_node = None
                           THEN [s EXCEPT !.tail = prev_node,
                                          !.nodes = [@ EXCEPT ![prev_node].next_ = None]]
                           ELSE [s EXCEPT !.nodes = [@ EXCEPT ![prev_node].next_ = next_node]]
                 IN Return([s1 EXCEPT !.n = @ - 1], ans)

(* index, the while loop of lines 162-167; 0 - 1 when the walk reaches the *)
(* end without a match.                                                    *)
RECURSIVE LinkedList_search(_, _, _, _)
LinkedList_search(ns, node, val, idx) ==
    IF node = None THEN 0 - 1
    ELSE IF ns[node].val = val THEN idx
    ELSE LinkedList_search(ns, ns[node].next_, val, idx + 1)

LinkedList_index(s, val) ==
    LET idx == LinkedList_search(s.nodes, s.head, val, 0)
    IN IF idx < 0 THEN Raise(s, "IndexError") ELSE Return(s, idx)

(* reverse, the while loop of lines 178-180: the nodes from head on.       *)
RECURSIVE LinkedList_stack(_, _, _)
LinkedList_stack(ns, node, fuel) ==
    IF node = None \/ fuel = 0 THEN <<>>
    ELSE <<node>> \o LinkedList_stack(ns, ns[node].next_, fuel - 1)

(* reverse, the while loop of lines 184-187: the relinked nodes and the    *)
(* node popped last.                                                       *)
RECURSIVE LinkedList_relink(_, _, _, _)
LinkedList_relink(ns, stack, last_node, node) ==
    IF stack = <<>> THEN [ns |-> ns, node |-> node]
    ELSE LET popped == stack[Len(stack)]
         IN LinkedList_relink([ns EXCEPT ![last_node].next_ = popped],
                              SubSeq(stack, 1, Len(stack) - 1), popped, popped)

LinkedList_reverse(s) ==
    IF s.n > 1
    THEN LET stack == LinkedList_stack(s.nodes, s.head, Cardinality(DOMAIN s.nodes) + 1)
         IN IF stack = <<>> THEN Raise(s, "IndexError")
            ELSE LET new_head == stack[Len(stack)]
                     done == LinkedList_relink(s.nodes, SubSeq(stack, 1, Len(stack) - 1),
                                               new_head, None)
                 IN IF done.node = None THEN Raise([s EXCEPT !.head = new_head], "AttributeError")
                    ELSE Return([s EXCEPT !.head = new_head,
                                          !.nodes = [done.ns EXCEPT ![done.node].next_ = None],
                                          !.tail = done.node], None)
    ELSE Return(s, None)

LinkedList_len(s) == s.n

LinkedList_getitem(s, index) ==
    LET ref_idx == IF index < 0 THEN s.n - index * (0 - 1) ELSE index
        got == LinkedList_get(s, ref_idx, FALSE)
    IN IF got.exc # "none" THEN got
       ELSE IF got.ret # None THEN got
       ELSE Raise(s, "IndexError")

(* A mutation of LinkedList_setitem: an index without a node is ignored.   *)
LinkedList_setitem_ignore_missing(s, index, val) ==
    LET got == LinkedList_get(s, index, FALSE)
    IN IF got.exc # "none" THEN got
       ELSE IF got.ret = None THEN Return(s, None)
       ELSE Return([s EXCEPT !.nodes = [@ EXCEPT ![got.ret].val = val]], None)

LinkedList_setitem(s, index, val) ==
    LET got == LinkedList_get(s, index, FALSE)
    IN IF got.exc # "none" THEN got
       ELSE IF got.ret = None THEN Raise(s, "IndexError")
       ELSE Return([s EXCEPT !.nodes = [@ EXCEPT ![got.ret].val = val]], None)

(* ---- DoublyLinkedList ---- *)

(* _get, the for loops of lines 300-301 and 304-305 with steps iterations  *)
(* to go: forward follows next_, otherwise prev_.                          *)
RECURSIVE DoublyLinkedList_walk(_, _, _, _)
DoublyLinkedList_walk(ns, node, steps, forward) ==
    IF steps = 0 THEN [node |-> node, exc |-> "none"]
    ELSE IF node = None THEN [node |-> node, exc |-> "AttributeError"]
    ELSE DoublyLinkedList_walk(ns, IF forward THEN ns[node].next_ ELSE ns[node].prev_,
                               steps - 1, forward)

DoublyLinkedList__get(s, index) ==
    IF index < 0 \/ index >= s.n THEN [node |-> None, exc |-> "none"]
    ELSE IF index + 1 <= s.n \div 2
    THEN DoublyLinkedList_walk(s.nodes, s.head, index, TRUE)
    ELSE DoublyLinkedList_walk(s.nodes, s.tail, s.n - 1 - index, FALSE)

DoublyLinkedList_get(s, index, return_value) ==
    LET got == DoublyLinkedList__get(s, index)
    IN IF got.exc # "none" THEN Raise(s, got.exc)
       ELSE IF got.node = None THEN Return(s, None)
       ELSE Return(s, IF return_value = TRUE THEN s.nodes[got.node].val ELSE got.node)

DoublyLinkedList_insert(s, index_arg, val) ==
    IF val = None THEN Raise(s, "ValueError")
    ELSE LET index == IndexOr(index_arg, s.n)
         IN IF index < 0 \/ index > s.n THEN Raise(s, "IndexError")
            ELSE LET r == FreeRef(s.nodes)
                     s1 == IF index = 0
                           THEN IF s.head = None
                                THEN [s EXCEPT !.nodes = SetKey(@, r, ListNode(val, None, None)),
                                               !.head = r, !.tail = r]
                                ELSE [s EXCEPT !.nodes = SetKey([@ EXCEPT ![s.head].prev_ = r],
                                                                r, ListNode(val, None, s.head)),
                                               !.head = r]
                           ELSE IF index = s.n
                           THEN IF s.tail = None THEN Raise(s, "AttributeError")
                                ELSE [s EXCEPT !.nodes = SetKey([@ EXCEPT ![s.tail].next_ = r],
                                                                r, ListNode(val, s.tail, None)),
                                               !.tail = r]
                           ELSE LET got == DoublyLinkedList__get(s, index)
                                    node == got.node
                                IN IF got.exc # "none" \/ node = None
                                   THEN Raise(s, "AttributeError")
                                   ELSE LET prev_node == s.nodes[node].prev_
                                        IN IF prev_node = None THEN Raise(s, "AttributeError")
                                           ELSE [s EXCEPT !.nodes =
                                                     SetKey([@ EXCEPT ![prev_node].next_ = r,
                                                                      ![node].prev_ = r],
                                                            r, ListNode(val, prev_node, node))]
                 IN IF s1.exc # "none" THEN s1 ELSE Return([s1 EXCEPT !.n = @ + 1], None)

DoublyLinkedList_append(s, val) == DoublyLinkedList_insert(s, <<s.n>>, val)

DoublyLinkedList_pop(s, index_arg) ==
    IF s.n = 0 THEN Raise(s, "IndexError")
    ELSE LET index == IndexOr(index_arg, s.n - 1)
             got == DoublyLinkedList__get(s, index)
             node == got.node
         IN IF got.exc # "none" THEN Raise(s, got.exc)
            ELSE IF node = None THEN Raise(s, "IndexError")
            ELSE LET ans == s.nodes[node].val
                     prev_node == s.nodes[node].prev_
                     next_node == s.nodes[node].next_
                     s1 == IF s.n = 1 THEN [s EXCEPT !.head = None, !.tail = None]
                           ELSE IF prev_node = None
                           THEN IF next_node = None
                                THEN Raise([s EXCEPT !.head = None], "AttributeError")
                                ELSE [s EXCEPT !.head = next_node,
                                               !.nodes = [@ EXCEPT ![next_node].prev_ = None]]
                           ELSE IF next_node = None
                           THEN [s EXCEPT !.tail = prev_node,
                                          !.nodes = [@ EXCEPT ![prev_node].next_ = None]]
                           ELSE [s EXCEPT !.nodes = [@ EXCEPT ![prev_node].next_ = next_node,
                                                              ![next_node].prev_ = prev_node]]
                 IN IF s1.exc # "none" THEN s1 ELSE Return([s1 EXCEPT !.n = @ - 1], ans)

DoublyLinkedList_index(s, val) ==
    LET idx == LinkedList_search(s.nodes, s.head, val, 0)
    IN IF idx < 0 THEN Raise(s, "IndexError") ELSE Return(s, idx)

(* reverse, the while loop of lines 435-437 from node on.                  *)
RECURSIVE DoublyLinkedList_flip(_, _, _)
DoublyLinkedList_flip(ns, node, fuel) ==
    IF node = None \/ fuel = 0 THEN ns
    ELSE DoublyLinkedList_flip([ns EXCEPT ![node].next_ = ns[node].prev_,
                                          ![node].prev_ = ns[node].next_],
                               ns[node].next_, fuel - 1)

DoublyLinkedList_reverse(s) ==
    IF s.n > 1
    THEN Return([s EXCEPT !.head = s.tail, !.tail = s.head,
                          !.nodes = DoublyLinkedList_flip(@, s.head, Cardinality(DOMAIN @))],
                None)
    ELSE Return(s, None)

DoublyLinkedList_len(s) == s.n

DoublyLinkedList_getitem(s, index) ==
    LET ref_idx == IF index < 0 THEN s.n - index * (0 - 1) ELSE index
        got == DoublyLinkedList_get(s, ref_idx, FALSE)
    IN IF got.exc # "none" THEN got
       ELSE IF got.ret # None THEN got
       ELSE Raise(s, "IndexError")

DoublyLinkedList_setitem(s, index, val) ==
    LET got == DoublyLinkedList_get(s, index, FALSE)
    IN IF got.exc # "none" THEN got
       ELSE IF got.ret = None THEN Raise(s, "IndexError")
       ELSE Return([s EXCEPT !.nodes = [@ EXCEPT ![got.ret].val = val]], None)

(* ---- the calls ---- *)

IsLL == cls \in {"LinkedList", "DoublyLinkedList"}

(* The node references met from head via next_, for a list object d.       *)
RECURSIVE LLChain(_, _, _)
LLChain(d, node, fuel) ==
    IF node = None \/ node \notin DOMAIN d.nodes \/ fuel = 0 THEN <<>>
    ELSE <<node>> \o LLChain(d, d.nodes[node].next_, fuel - 1)

LLRefs == LLChain(llist, llist.head, Cardinality(DOMAIN llist.nodes) + 1)

LLVals == [i \in DOMAIN LLRefs |-> llist.nodes[LLRefs[i]].val]

(* The reference: what a call does on a plain sequence q. exc is the       *)
(* exception to expect, ret the value to expect (for obj[i]: the place of  *)
(* the node), q the sequence after the call.                               *)
RefOutcome(q, exc_, ret_) == [q |-> q, exc |-> exc_, ret |-> ret_]

RefLL(q, op, index_arg, val) ==
    LET n == Len(q)
    IN CASE op = "insert" ->
              LET index == IndexOr(index_arg, n)
              IN IF val = None THEN RefOutcome(q, "ValueError", None)
                 ELSE IF index < 0 \/ index > n THEN RefOutcome(q, "IndexError", None)
                 ELSE RefOutcome(PyInsert(q, index, val), "none", None)
         [] op = "append" -> RefOutcome(Append(q, val), "none", None)
         [] op = "pop" ->
              LET index == IndexOr(index_arg, n - 1)
              IN IF n = 0 \/ index < 0 \/ index > n - 1 THEN RefOutcome(q, "IndexError", None)
                 ELSE RefOutcome(PyDelete(q, index), "none", q[index + 1])
         [] op = "reverse" -> RefOutcome([i \in 1..n |-> q[n + 1 - i]], "none", None)
         [] op = "__setitem__" ->
              LET index == index_arg[1]
              IN IF index < 0 \/ index > n - 1 THEN RefOutcome(q, "IndexError", None)
                 ELSE RefOutcome(PySet(q, index, val), "none", None)
         [] op = "__getitem__" ->
              LET index == index_arg[1]
              IN IF index < 0 - n \/ index > n - 1 THEN RefOutcome(q, "IndexError", None)
                 ELSE RefOutcome(q, "none", IF index < 0 THEN n + index + 1 ELSE index + 1)
         [] op = "index" ->
              IF val \notin Range(q) THEN RefOutcome(q, "IndexError", None)
              ELSE RefOutcome(q, "none", SetMin({i \in 1..n : q[i] = val}) - 1)

LLFields(s) == [n |-> s.n, head |-> s.head, tail |-> s.tail, nodes |-> s.nodes]

(* A node no reference leads to any more is freed when the call ends.      *)
LLCommit(s) ==
    /\ llist' = Deque_collect(LLFields(s))
    /\ ret' = s.ret
    /\ exc' = s.exc

(* The call made, with what the reference expects of it, and whether the   *)
(* call left the object as it was.                                         *)
LLCall(op, index_arg, val, s) ==
    [op |-> op, index |-> index_arg, val |-> val,
     expect |-> RefLL(ref, op, index_arg, val).ret,
     raises |-> RefLL(ref, op, index_arg, val).exc,
     same |-> LLFields(s) = llist]

LLDo(op, index_arg, val, s) ==
    /\ IsLL
    /\ exc = "none"
    /\ s.n <= LL_MaxLen
    /\ LLCommit(s)
    /\ last' = LLCall(op, index_arg, val, s)
    /\ ref' = RefLL(ref, op, index_arg, val).q
    /\ UNCHANGED <<cls, cache_fields, deque, heap, bit, seg, djs, trie, bst>>

LL_Insert(index_arg, val) ==
    LLDo("insert", index_arg, val,
         IF cls = "LinkedList" THEN LinkedList_insert(LLSelf, index_arg, val)
         ELSE DoublyLinkedList_insert(LLSelf, index_arg, val))

LL_Append(val) ==
    LLDo("append", <<>>, val,
         IF cls = "LinkedList" THEN LinkedList_append(LLSelf, val)
         ELSE DoublyLinkedList_append(LLSelf, val))

LL_Pop(index_arg) ==
    LLDo("pop", index_arg, None,
         IF cls = "LinkedList" THEN LinkedList_pop(LLSelf, index_arg)
         ELSE DoublyLinkedList_pop(LLSelf, index_arg))

LL_Reverse ==
    LLDo("reverse", <<>>, None,
         IF cls = "LinkedList" THEN LinkedList_reverse(LLSelf)
         ELSE DoublyLinkedList_reverse(LLSelf))

LL_SetItem(index, val) ==
    LLDo("__setitem__", <<index>>, val,
         IF cls = "LinkedList" THEN LinkedList_setitem(LLSelf, index, val)
         ELSE DoublyLinkedList_setitem(LLSelf, index, val))

LL_GetItem(index) ==
    LLDo("__getitem__", <<index>>, None,
         IF cls = "LinkedList" THEN LinkedList_getitem(LLSelf, index)
         ELSE DoublyLinkedList_getitem(LLSelf, index))

LL_Index(val) ==
    LLDo("index", <<>>, val,
         IF cls = "LinkedList" THEN LinkedList_index(LLSelf, val)
         ELSE DoublyLinkedList_index(LLSelf, val))

InitLL ==
    /\ cls \in {"LinkedList", "DoublyLinkedList"}
    /\ NoCache
    /\ deque = None /\ heap = None /\ bit = None /\ seg = None
    /\ djs = None /\ trie = None /\ bst = None
    /\ llist = [n |-> 0, head |-> None, tail |-> None, nodes |-> <<>>]
    /\ ref = <<>>
    /\ ret = None
    /\ exc = "none"
    /\ last = [op |-> "__init__", index |-> <<>>, val |-> None, expect |-> None,
               raises |-> "none", same |-> TRUE]

(* The indices tried: every index of the list, and one and two beyond at   *)
(* either end.                                                             *)
LLIndices == (0 - llist.n - 1)..(llist.n + 1)

NextLL ==
    \/ \E index_arg \in {<<>>} \cup {<<i>> : i \in LLIndices} :
          \E val \in LL_Vals \cup {None} : LL_Insert(index_arg, val)
    \/ \E val \in LL_Vals : LL_Append(val)
    \/ \E index_arg \in {<<>>} \cup {<<i>> : i \in LLIndices} : LL_Pop(index_arg)
    \/ LL_Reverse
    \/ \E index \in LLIndices : \E val \in LL_Vals : LL_SetItem(index, val)
    \/ \E index \in LLIndices : LL_GetItem(index)
    \/ \E val \in LL_Vals : LL_Index(val)

SpecLL == InitLL /\ [][NextLL]_vars

(* The list object is the sequence q: the values from head via next_ are   *)
(* q, n is the number of nodes, head and tail are the first and the last   *)
(* node (None when empty), and in a DoublyLinkedList prev_ of every node   *)
(* is its predecessor.                                                     *)
LLIsSequence(q) ==
    /\ LLVals = q
    /\ llist.n = Len(q)
    /\ llist.n = Cardinality(DOMAIN llist.nodes)
    /\ llist.head = IF q = <<>> THEN None ELSE LLRefs[1]
    /\ llist.tail = IF q = <<>> THEN None ELSE LLRefs[Len(LLRefs)]
    /\ cls = "DoublyLinkedList"
          => \A i \in DOMAIN LLRefs :
                llist.nodes[LLRefs[i]].prev_ = IF i = 1 THEN None ELSE LLRefs[i - 1]

(* C23: LinkedList and DoublyLinkedList: after every insert(i, v) with     *)
(* 0 <= i <= n, append(v), pop(i) with 0 <= i < n, pop(), reverse() and    *)
(* obj[i] = v with 0 <= i < n, the object is the reference sequence under  *)
(* the same list operation, the call raised nothing, and pop returned the  *)
(* element removed.                                                        *)
C23_LinkedListRefinesSequence ==
    (IsLL /\ last.raises = "none") =>
        /\ exc = "none"
        /\ LLIsSequence(ref)
        /\ last.op = "pop" => ret = last.expect
        /\ last.op = "index" => ret = last.expect
        /\ last.op = "__getitem__" => ret = LLRefs[last.expect]
        /\ last.op \in {"insert", "append", "reverse", "__setitem__"} => ret = None

C23_Witness ==
    /\ cls = "DoublyLinkedList" /\ exc = "none"
    /\ last.op = "reverse"
    /\ ref = <<1, 2, 2>>
    /\ llist.head # 1

(* C24: LinkedList and DoublyLinkedList: insert with index < 0 or index >  *)
(* n, pop of an empty list, pop with an index outside 0..n-1, obj[i] with  *)
(* i outside -n..n-1, obj[i] = v with i outside 0..n-1 and index(v) of a   *)
(* value not in the list raise IndexError, insert without a value raises   *)
(* ValueError; the call leaves head, tail, n and every node as they were;  *)
(* and no other call raises.                                               *)
C24_LinkedListErrors ==
    IsLL =>
        /\ exc = last.raises
        /\ exc # "none" => /\ last.same
                           /\ LLIsSequence(ref)
                           /\ exc = IF last.op = "insert" /\ last.val = None
                                    THEN "ValueError" ELSE "IndexError"

C24_Witness ==
    /\ cls = "LinkedList" /\ exc = "IndexError"
    /\ last.op = "pop" /\ last.index = <<2>>
    /\ ref = <<1, 2>>
    /\ LLVals = <<1, 2>>

(* ======================================================================= *)
(* BinarySearchTree (binary_search_tree.py).                               *)
(* bst = [root, n, nodes]: nodes maps the reference of every live TreeNode *)
(* to [val, left, right]. ref is the multiset of the values inserted and  *)
(* not deleted: value -> number of copies.                                 *)
(* ======================================================================= *)

BST_MaxLen == 5

BST_Vals == {1, 2, 3}

TreeNode(val, left, right) == [val |-> val, left |-> left, right |-> right]

BinarySearchTree_init == [root |-> None, n |-> 0, nodes |-> <<>>]

BSTSelf == [root |-> bst.root, n |-> bst.n, nodes |-> bst.nodes, ret |-> None, exc |-> "none"]

(* _search: the node holding val that the descent meets first, or None.    *)
RECURSIVE BinarySearchTree__search(_, _, _)
BinarySearchTree__search(ns, root, val) ==
    IF root = None THEN None
    ELSE IF ns[root].val = val THEN root
    ELSE IF ns[root].val > val THEN BinarySearchTree__search(ns, ns[root].left, val)
    ELSE BinarySearchTree__search(ns, ns[root].right, val)

BinarySearchTree_search(s, val) == Return(s, BinarySearchTree__search(s.nodes, s.root, val))

(* _insert: the nodes after the insertion and the root of the subtree.     *)
RECURSIVE BinarySearchTree__insert(_, _, _)
BinarySearchTree__insert(ns, root, val) ==
    IF root = None
    THEN LET r == FreeRef(ns)
         IN [nodes |-> SetKey(ns, r, TreeNode(val, None, None)), root |-> r]
    ELSE IF ns[root].val > val
    THEN LET sub == BinarySearchTree__insert(ns, ns[root].left, val)
         IN [nodes |-> [sub.nodes EXCEPT ![root].left = sub.root], root |-> root]
    ELSE LET sub == BinarySearchTree__insert(ns, ns[root].right, val)
         IN [nodes |-> [sub.nodes EXCEPT ![root].right = sub.root], root |-> root]

BinarySearchTree_insert(s, val) ==
    LET t == BinarySearchTree__insert(s.nodes, s.root, val)
    IN [s EXCEPT !.nodes = t.nodes, !.root = t.root, !.n = s.n + 1]

(* _treeSearch: the node holding key and its parent.                       *)
RECURSIVE BinarySearchTree__treeSearch(_, _, _, _)
BinarySearchTree__treeSearch(ns, root, prior_node, key) ==
    IF root = None
    THEN [key_node |-> None, prior_node |-> None]
    ELSE IF ns[root].val = key
    THEN [key_node |-> root, prior_node |-> prior_node]
    ELSE IF ns[root].val > key
    THEN BinarySearchTree__treeSearch(ns, ns[root].left, root, key)
    ELSE BinarySearchTree__treeSearch(ns, ns[root].right, root, key)

(* The while loop of lines 207-208: the left-most node below node.         *)
RECURSIVE BinarySearchTree_leftmost(_, _)
BinarySearchTree_leftmost(ns, node) ==
    IF ns[node].left # None THEN BinarySearchTree_leftmost(ns, ns[node].left) ELSE node

(* The while loop of lines 216-221: the descent to target, remembering the *)
(* node of the last left turn. The found flag is FALSE when the descent    *)
(* falls off the tree (None.val raises AttributeError).                     *)
RECURSIVE BinarySearchTree_lastLeftTurn(_, _, _, _)
BinarySearchTree_lastLeftTurn(ns, node, target, last_left_turn) ==
    IF node = None THEN [found |-> FALSE, node |-> None]
    ELSE IF ns[node].val = target THEN [found |-> TRUE, node |-> last_left_turn]
    ELSE IF ns[node].val < target
    THEN BinarySearchTree_lastLeftTurn(ns, ns[node].right, target, last_left_turn)
    ELSE BinarySearchTree_lastLeftTurn(ns, ns[node].left, target, node)

(* A mutation of BinarySearchTree_inorderSuccessor: the right child itself *)
(* is taken for the successor, without the walk to its left-most node.     *)
BinarySearchTree_inorderSuccessor_right_child(ns, root, p) ==
    IF ns[p].right # None
    THEN [found |-> TRUE, node |-> ns[p].right]
    ELSE BinarySearchTree_lastLeftTurn(ns, root, ns[p].val, None)

BinarySearchTree_inorderSuccessor(ns, root, p) ==
    IF ns[p].right # None
    THEN [found |-> TRUE, node |-> BinarySearchTree_leftmost(ns, ns[p].right)]
    ELSE BinarySearchTree_lastLeftTurn(ns, root, ns[p].val, None)

(* Lines 132-135 and 143-146: the link of prior_node that led to the node  *)
(* holding key is set to child_node.                                       *)
BinarySearchTree_relink(ns, prior_node, key, child_node) ==
    IF ns[prior_node].left # None /\ ns[ns[prior_node].left].val = key
    THEN [ns EXCEPT ![prior_node].left = child_node]
    ELSE [ns EXCEPT ![prior_node].right = child_node]

(* _delete: the nodes after the deletion and the root of the subtree.      *)
RECURSIVE BinarySearchTree__delete(_, _, _)
BinarySearchTree__delete(ns, root, key) ==
    IF root = None THEN [nodes |-> ns, root |-> None]
    ELSE
    LET found == BinarySearchTree__treeSearch(ns, root, None, key)
        key_node == found.key_node
        prior_node == found.prior_node
    IN IF key_node = None THEN [nodes |-> ns, root |-> root]
       ELSE
       LET n_successors == (IF ns[key_node].left # None THEN 1 ELSE 0)
                           + (IF ns[key_node].right # None THEN 1 ELSE 0)
       IN IF n_successors = 0
          THEN IF prior_node = None THEN [nodes |-> ns, root |-> None]
               ELSE [nodes |-> BinarySearchTree_relink(ns, prior_node, key, None),
                     root |-> root]
          ELSE IF n_successors = 1
          THEN LET child_node == IF ns[key_node].left # None THEN ns[key_node].left
                                 ELSE ns[key_node].right
               IN IF prior_node = None THEN [nodes |-> ns, root |-> child_node]
                  ELSE [nodes |-> BinarySearchTree_relink(ns, prior_node, key, child_node),
                        root |-> root]
          ELSE LET IO_successor == BinarySearchTree_inorderSuccessor(ns, root, key_node).node
                   ns1 == [ns EXCEPT ![key_node].val = ns[IO_successor].val]
                   sub == BinarySearchTree__delete(ns1, ns1[key_node].right,
                                                   ns1[IO_successor].val)
               IN [nodes |-> [sub.nodes EXCEPT ![key_node].right = sub.root],
                   root |-> root]

(* A mutation of BinarySearchTree_delete: the root returned by _delete is  *)
(* not assigned to self.root.                                              *)
BinarySearchTree_delete_keeps_root(s, val) ==
    LET n1 == IF BinarySearchTree__search(s.nodes, s.root, val) # None THEN s.n - 1 ELSE s.n
        t == BinarySearchTree__delete(s.nodes, s.root, val)
    IN [s EXCEPT !.n = n1, !.nodes = t.nodes]

BinarySearchTree_delete(s, val) ==
    LET n1 == IF BinarySearchTree__search(s.nodes, s.root, val) # None THEN s.n - 1 ELSE s.n
        t == BinarySearchTree__delete(s.nodes, s.root, val)
    IN [s EXCEPT !.n = n1, !.nodes = t.nodes, !.root = t.root]

(* inOrderTraversal with return_vals=True: [left, root, right].            *)
RECURSIVE BinarySearchTree_inOrderTraversal(_, _)
BinarySearchTree_inOrderTraversal(ns, root) ==
    IF root = None THEN <<>>
    ELSE BinarySearchTree_inOrderTraversal(ns, ns[root].left)
         \o <<ns[root].val>>
         \o BinarySearchTree_inOrderTraversal(ns, ns[root].right)

(* A mutation of BinarySearchTree__balanced_BST: the first element is made *)
(* the root and all the others go to its right.                            *)
RECURSIVE BinarySearchTree__balanced_BST_chain(_, _)
BinarySearchTree__balanced_BST_chain(ns, inOrderNodeList) ==
    IF Len(inOrderNodeList) = 0 THEN [nodes |-> ns, root |-> None]
    ELSE LET root == FreeRef(ns)
             ns1 == SetKey(ns, root, TreeNode(inOrderNodeList[1], None, None))
             right == BinarySearchTree__balanced_BST_chain(ns1, Tail(inOrderNodeList))
         IN [nodes |-> [right.nodes EXCEPT ![root].right = right.root], root |-> root]

(* _balanced_BST: the nodes with the new tree added, and its root.         *)
RECURSIVE BinarySearchTree__balanced_BST(_, _)
BinarySearchTree__balanced_BST(ns, inOrderNodeList) ==
    IF Len(inOrderNodeList) = 0 THEN [nodes |-> ns, root |-> None]
    ELSE IF Len(inOrderNodeList) = 1
    THEN LET r == FreeRef(ns)
         IN [nodes |-> SetKey(ns, r, TreeNode(inOrderNodeList[1], None, None)), root |-> r]
    ELSE LET n == Len(inOrderNodeList) \div 2
             root == FreeRef(ns)
             ns1 == SetKey(ns, root, TreeNode(PyItem(inOrderNodeList, n), None, None))
             left == BinarySearchTree__balanced_BST(ns1, SubSeq(inOrderNodeList, 1, n))
             ns2 == [left.nodes EXCEPT ![root].left = left.root]
             right == BinarySearchTree__balanced_BST(
                          ns2, SubSeq(inOrderNodeList, n + 2, Len(inOrderNodeList)))
         IN [nodes |-> [right.nodes EXCEPT ![root].right = right.root], root |-> root]

BinarySearchTree_rebalance(s) ==
    LET t == BinarySearchTree__balanced_BST(
                 s.nodes, BinarySearchTree_inOrderTraversal(s.nodes, s.root))
    IN [s EXCEPT !.nodes = t.nodes, !.root = t.root]

(* _DFS: low and high are None or a bound the values must stay strictly    *)
(* inside.                                                                 *)
RECURSIVE BinarySearchTree__DFS(_, _, _, _)
BinarySearchTree__DFS(ns, node, low, high) ==
    IF node = None THEN TRUE
    ELSE IF high # None /\ ns[node].val >= high THEN FALSE
    ELSE IF low # None /\ ns[node].val <= low THEN FALSE
    ELSE IF ns[node].right = None /\ ns[node].left = None THEN TRUE
    ELSE /\ BinarySearchTree__DFS(ns, ns[node].left, low, ns[node].val)
         /\ BinarySearchTree__DFS(ns, ns[node].right, ns[node].val, high)

(* isValidBST: self.root.left of an empty tree raises AttributeError.      *)
BinarySearchTree_isValidBST(s) ==
    IF s.root = None THEN Raise(s, "AttributeError")
    ELSE Return(s, /\ BinarySearchTree__DFS(s.nodes, s.nodes[s.root].left, None,
                                            s.nodes[s.root].val)
                   /\ BinarySearchTree__DFS(s.nodes, s.nodes[s.root].right,
                                            s.nodes[s.root].val, None))

BinarySearchTree_len(s) == Return(s, s.n)

RECURSIVE BinarySearchTree_get_max_depth(_, _)
BinarySearchTree_get_max_depth(ns, root) ==
    IF root = None THEN 0
    ELSE SetMax({BinarySearchTree_get_max_depth(ns, ns[root].left),
                 BinarySearchTree_get_max_depth(ns, ns[root].right)}) + 1

(* ---- the calls on a BinarySearchTree ---- *)

IsBST == cls = "BinarySearchTree"

(* The references of the nodes reachable from root, in pre-order.          *)
RECURSIVE BSTPreOrder(_, _)
BSTPreOrder(ns, root) ==
    IF root = None THEN <<>>
    ELSE <<root>> \o BSTPreOrder(ns, ns[root].left) \o BSTPreOrder(ns, ns[root].right)

BSTFields(s) == [root |-> s.root, n |-> s.n, nodes |-> s.nodes]

(* Reference counting frees a TreeNode that cannot be reached from root.   *)
(* References are only ever compared for identity, so the live nodes are   *)
(* numbered by their place in the pre-order; a tree that a call does not   *)
(* touch keeps its numbers.                                                *)
BST_collect(d) ==
    LET order == BSTPreOrder(d.nodes, d.root)
        pos(r) == IF r = None THEN None ELSE CHOOSE i \in DOMAIN order : order[i] = r
    IN [root |-> pos(d.root), n |-> d.n,
        nodes |-> [i \in DOMAIN order |->
                      TreeNode(d.nodes[order[i]].val, pos(d.nodes[order[i]].left),
                               pos(d.nodes[order[i]].right))]]

BSTCommit(s) ==
    /\ bst' = BST_collect(BSTFields(s))
    /\ ret' = s.ret
    /\ exc' = s.exc

(* The multiset of values after the call.                                  *)
RefBST(q, op, val) ==
    CASE op = "insert" -> [q EXCEPT ![val] = @ + 1]
      [] op = "delete" -> [q EXCEPT ![val] = IF @ > 0 THEN @ - 1 ELSE 0]
      [] OTHER -> q

(* The values search finds in the tree.                                    *)
BSTFound(d) == {v \in BST_Vals : BinarySearchTree__search(d.nodes, d.root, v) # None}

(* Which node a delete of val removes: the number of children of the node  *)
(* _treeSearch finds (0 - 1 when there is none) and whether it is the      *)
(* root.                                                                   *)
BSTChildren(d, val) ==
    LET key_node == BinarySearchTree__treeSearch(d.nodes, d.root, None, val).key_node
    IN IF key_node = None THEN 0 - 1
       ELSE (IF d.nodes[key_node].left # None THEN 1 ELSE 0)
            + (IF d.nodes[key_node].right # None THEN 1 ELSE 0)

(* The call made, and what the tree was before it: for a delete the copies *)
(* of val it held, the deletion case and whether the call left the object  *)
(* as it was; for a rebalance the traversal, len and the values found.     *)
BSTCall(op, val, s) ==
    [op |-> op, val |-> val,
     copies |-> IF op = "delete" THEN ref[val] ELSE 0,
     children |-> IF op = "delete" THEN BSTChildren(bst, val) ELSE 0 - 1,
     at_root |-> op = "delete" /\ bst.root # None /\ bst.nodes[bst.root].val = val,
     io |-> IF op = "rebalance" THEN BinarySearchTree_inOrderTraversal(bst.nodes, bst.root)
            ELSE <<>>,
     n |-> IF op = "rebalance" THEN bst.n ELSE 0,
     found |-> IF op = "rebalance" THEN BSTFound(bst) ELSE {},
     same |-> op # "delete" \/ BST_collect(BSTFields(s)) = bst]

BSTDo(op, val, s) ==
    /\ IsBST
    /\ exc = "none"
    /\ s.n <= BST_MaxLen
    /\ BSTCommit(s)
    /\ last' = BSTCall(op, val, s)
    /\ ref' = RefBST(ref, op, val)
    /\ UNCHANGED <<cls, cache_fields, deque, heap, bit, seg, djs, trie, llist>>

BST_Insert(val) == BSTDo("insert", val, BinarySearchTree_insert(BSTSelf, val))

BST_Delete(val) == BSTDo("delete", val, BinarySearchTree_delete(BSTSelf, val))

BST_Rebalance == BSTDo("rebalance", None, BinarySearchTree_rebalance(BSTSelf))

BST_Search(val) == BSTDo("search", val, BinarySearchTree_search(BSTSelf, val))

BST_IsValidBST == BSTDo("isValidBST", None, BinarySearchTree_isValidBST(BSTSelf))

BST_Len == BSTDo("__len__", None, BinarySearchTree_len(BSTSelf))

InitBST ==
    /\ cls = "BinarySearchTree"
    /\ NoCache
    /\ deque = None /\ heap = None /\ bit = None /\ seg = None
    /\ djs = None /\ trie = None /\ llist = None
    /\ bst = BinarySearchTree_init
    /\ ref = [v \in BST_Vals |-> 0]
    /\ ret = None
    /\ exc = "none"
    /\ last = [op |-> "__init__", val |-> None, copies |-> 0, children |-> 0 - 1,
               at_root |-> FALSE, io |-> <<>>, n |-> 0, found |-> {}, same |-> TRUE]

NextBST ==
    \/ \E val \in BST_Vals : BST_Insert(val)
    \/ \E val \in BST_Vals : BST_Delete(val)
    \/ BST_Rebalance
    \/ \E val \in BST_Vals : BST_Search(val)
    \/ BST_IsValidBST
    \/ BST_Len

SpecBST == InitBST /\ [][NextBST]_vars

BSTInOrder == BinarySearchTree_inOrderTraversal(bst.nodes, bst.root)

(* C25: after any sequence of insert, delete and rebalance (duplicates     *)
(* allowed) the in-order traversal is non-decreasing and holds exactly the *)
(* inserted values less one copy for each delete of a value that was       *)
(* present; len equals the length of the traversal; a delete of a value    *)
(* the tree does not hold leaves the tree and len as they were.            *)
C25_TraversalIsSortedMultiset ==
    IsBST =>
        /\ \A i \in 1..(Len(BSTInOrder) - 1) : BSTInOrder[i] <= BSTInOrder[i + 1]
        /\ \A v \in BST_Vals : Occurrences(BSTInOrder, v) = ref[v]
        /\ BinarySearchTree_len(BSTSelf).ret = Len(BSTInOrder)
        /\ (last.op = "delete" /\ last.copies = 0) => last.same

C25_Witness ==
    /\ IsBST /\ exc = "none"
    /\ last.op = "delete" /\ last.val = 2 /\ last.copies = 2 /\ last.children = 2
    /\ BSTInOrder = <<1, 2, 3>>
    /\ bst.n = 3

(* C26: for a non-empty tree reached by any sequence of insert, delete and *)
(* rebalance calls, isValidBST() returns True.                             *)
C26_ReachableTreeIsValid ==
    (IsBST /\ last.op = "isValidBST" /\ exc = "none") => ret = TRUE

(* C27 as stated: after delete(v), search(v) returns None.                 *)
C27_DeletedValueNotFound ==
    (IsBST /\ last.op = "delete") =>
        BinarySearchTree_search(BSTSelf, last.val).ret = None

(* C27, amended: delete(v) removes one copy of v. After delete(v),         *)
(* search(v) returns None exactly when the tree held at most one copy of   *)
(* v before the call, in each deletion case (the node has no child, one    *)
(* child, two children) and when the node is the root; when it held more   *)
(* copies, search(v) returns a node holding v.                             *)
C27_DeletedSingleCopyNotFound ==
    (IsBST /\ last.op = "delete") =>
        LET node == BinarySearchTree_search(BSTSelf, last.val).ret
        IN /\ (node = None) <=> (last.copies <= 1)
           /\ node # None => bst.nodes[node].val = last.val

C27_Witness ==
    /\ IsBST /\ exc = "none"
    /\ last.op = "delete" /\ last.copies = 1 /\ last.children = 2 /\ last.at_root
    /\ bst.n = 3
    /\ BinarySearchTree_search(BSTSelf, last.val).ret = None

(* At every node below root the depths of the two subtrees differ by at    *)
(* most one.                                                               *)
RECURSIVE BSTHeightBalanced(_, _)
BSTHeightBalanced(ns, root) ==
    root = None \/
        LET l == BinarySearchTree_get_max_depth(ns, ns[root].left)
            r == BinarySearchTree_get_max_depth(ns, ns[root].right)
        IN /\ l - r <= 1 /\ r - l <= 1
           /\ BSTHeightBalanced(ns, ns[root].left)
           /\ BSTHeightBalanced(ns, ns[root].right)

(* C28: rebalance() leaves inOrderTraversal() and len unchanged, the tree  *)
(* it builds is height-balanced (at every node the depths of the left and  *)
(* right subtrees differ by at most one), and every value search found     *)
(* before the call it finds after it.                                      *)
C28_RebalanceKeepsContents ==
    (IsBST /\ last.op = "rebalance") =>
        /\ BSTInOrder = last.io
        /\ BinarySearchTree_len(BSTSelf).ret = last.n
        /\ BSTHeightBalanced(bst.nodes, bst.root)
        /\ last.found \subseteq BSTFound(bst)

C28_Witness ==
    /\ IsBST /\ exc = "none"
    /\ last.op = "rebalance"
    /\ last.io = <<1, 1, 2, 2, 3>>
    /\ last.found = {1, 2, 3}
    /\ BinarySearchTree_get_max_depth(bst.nodes, bst.root) = 3

(* ======================================================================= *)
(* LFUCache: the place of a key in its bucket (specification Spec).        *)
(* ======================================================================= *)

(* C29: LFUCache: put(k, v) of a key that is not stored stores k with      *)
(* usage count 1, puts k at the end of bucket 1 and leaves min_freq at 1,  *)
(* with or without an eviction; so a key that was evicted with a higher    *)
(* count starts again at 1.                                                *)
C29_LFUPutAbsentKey ==
    (cls = "LFUCache" /\ IsPut(last) /\ ~last.hit) =>
        /\ exc = "none"
        /\ last.key \in DOMAIN dict
        /\ dict[last.key] = <<last.value, 1>>
        /\ 1 \in DOMAIN freq_dict
        /\ freq_dict[1] # <<>>
        /\ freq_dict[1][Len(freq_dict[1])] = last.key
        /\ min_freq = 1

(* The bucket of usage count f of a freq_dict fd; a bucket that is not     *)
(* there holds no key.                                                     *)
BucketOf(fd, f) == IF f \in DOMAIN fd THEN fd[f] ELSE <<>>

(* C30: LFUCache: every bucket holds its keys in the order in which they   *)
(* entered it, oldest first (a key enters a bucket at each access, so this *)
(* is the order of the latest accesses); a get hit or a put of a stored    *)
(* key with usage count f takes the key out of bucket f and appends it to  *)
(* bucket f + 1, and the other keys of both buckets keep their order.      *)
C30_LFUBucketOrder ==
    [][ cls = "LFUCache" =>
          /\ \A f \in DOMAIN freq_dict' :
                freq_dict'[f] = SelectSeq(recency', LAMBDA k : k \in Range(freq_dict'[f]))
          /\ (last'.op \in {"get", "put", "__setitem__"} /\ last'.key \in DOMAIN dict) =>
                LET f == dict[last'.key][2]
                IN /\ BucketOf(freq_dict', f) = SeqWithout(BucketOf(freq_dict, f), last'.key)
                   /\ BucketOf(freq_dict', f + 1)
                         = Append(BucketOf(freq_dict, f + 1), last'.key) ]_vars

C30_Witness ==
    /\ cls = "LFUCache" /\ capacity = 2 /\ exc = "none"
    /\ last.op = "get" /\ last.hit
    /\ 2 \in DOMAIN freq_dict
    /\ Len(freq_dict[2]) = 2
    /\ freq_dict[2][2] = last.key
    /\ recency[2] = last.key

(* C31: LFUCache, capacity >= 1: after every completed get or put          *)
(* freq_dict holds no empty bucket and no bucket numbered below 1; the     *)
(* bucket that loses its last key, in the usage-count increment or in an   *)
(* eviction, is deleted by the same call.                                  *)
C31_LFUNoEmptyBucket ==
    (cls = "LFUCache" /\ capacity >= 1) =>
        \A f \in DOMAIN freq_dict : f >= 1 /\ freq_dict[f] # <<>>

C31_Witness ==
    /\ cls = "LFUCache" /\ capacity = 2 /\ exc = "none"
    /\ last.op = "get" /\ last.hit
    /\ CacheLen = 2
    /\ DOMAIN freq_dict = {2}
    /\ freq_dict[2][2] = last.key
    /\ dict[last.key][2] = 2

(* The steps of LFUCache.put of a key that is not stored, as the code      *)
(* takes them: the object when put is entered, after lines 205-206 (the    *)
(* key is in the index and in bucket 1), and after the test of line 210    *)
(* with the eviction of lines 212-220 when it is taken.                    *)
LFUCache_put_steps(s, key, value) ==
    LET s1 == LFUCache_add(s, key, value)
        s2 == IF Cardinality(DOMAIN s1.dict) > capacity THEN LFUCache_drop(s1, key) ELSE s1
    IN <<s, s1, s2>>

(* len(self.dict) at each of these steps.                                  *)
LFUCache_put_sizes(s, key, value) ==
    [i \in 1..3 |-> Cardinality(DOMAIN LFUCache_put_steps(s, key, value)[i].dict)]

(* The puts of a key that is not stored, on a full cache, that can be made *)
(* in the current state.                                                   *)
FullPuts ==
    IF cls = "LFUCache" /\ exc = "none" /\ CacheLen = capacity
    THEN (LFU_Keys \ DOMAIN dict) \X Vals
    ELSE {}

C33_LFUCountIsAccesses ==
    [][ cls = "LFUCache" =>
          \A k \in DOMAIN dict' :
              IF k = last'.key
              THEN dict'[k][2] = IF k \in DOMAIN dict THEN dict[k][2] + 1 ELSE 1
              ELSE k \in DOMAIN dict /\ dict'[k][2] = dict[k][2] ]_vars

C33_Witness ==
    /\ cls = "LFUCache" /\ capacity = 2 /\ exc = "none"
    /\ IsPut(last) /\ last.hit
    /\ CacheLen = 2
    /\ dict[last.key][2] = 3
    /\ \E j \in DOMAIN dict : dict[j][2] = 1
    /\ min_freq = 1

(* C34: both classes, capacity 1: a put of a key that is not stored, on a  *)
(* cache that holds one key, evicts that key, whatever accesses it had,    *)
(* and leaves the new key as the only stored key; in an LRUCache head and  *)
(* tail are then the one node of the new key, with prev_ and next_ None,   *)
(* and in an LFUCache min_freq is 1.                                       *)
C34_CapacityOne ==
    (capacity = 1 /\ IsPut(last) /\ ~last.hit /\ last.full) =>
        /\ exc = "none"
        /\ DOMAIN dict = {last.key}
        /\ dict[last.key][1] = last.value
        /\ cls = "LRUCache" =>
              /\ head # None /\ head = tail
              /\ dict[last.key][2] = head
              /\ DOMAIN nodes = {head}
              /\ nodes[head] = ListNode(last.key, None, None)
        /\ cls = "LFUCache" =>
              /\ min_freq = 1
              /\ dict[last.key][2] = 1
              /\ DOMAIN freq_dict = {1}
              /\ freq_dict[1] = <<last.key>>

C34_Witness ==
    /\ cls = "LFUCache" /\ capacity = 1 /\ exc = "none"
    /\ IsPut(last) /\ ~last.hit /\ last.full
    /\ DOMAIN dict = {last.key}
    /\ freq_dict[1] = <<last.key>>
    /\ recency = <<last.key>>

(* The nodes met from n by following prev_, at most fuel of them.          *)
RECURSIVE BackFrom(_, _)
BackFrom(n, fuel) ==
    IF n = None \/ n \notin DOMAIN nodes \/ fuel = 0 THEN <<>>
    ELSE <<n>> \o BackFrom(nodes[n].prev_, fuel - 1)

BackRefs == BackFrom(tail, Cardinality(DOMAIN nodes) + 1)

Reversed(q) == [i \in 1..Len(q) |-> q[Len(q) + 1 - i]]

(* C35: LRUCache, capacity >= 1, after every completed get or put: head    *)
(* and tail are both None exactly when the cache is empty; otherwise       *)
(* head.prev_ is None, tail.next_ is None, n.next_.prev_ is n for every    *)
(* node n of the chain that has a successor, the chain from head by next_  *)
(* ends at tail without meeting a node twice, and the chain from tail by   *)
(* prev_ meets the same nodes in the reverse order.                        *)
C35_LRUListWellFormed ==
    (cls = "LRUCache" /\ capacity >= 1 /\ exc = "none") =>
        /\ (head = None /\ tail = None) <=> (DOMAIN dict = {})
        /\ DOMAIN dict # {} =>
              /\ head \in DOMAIN nodes /\ tail \in DOMAIN nodes
              /\ nodes[head].prev_ = None
              /\ nodes[tail].next_ = None
              /\ \A i \in DOMAIN ListRefs :
                    LET n == ListRefs[i]
                    IN nodes[n].next_ # None =>
                          /\ nodes[n].next_ \in DOMAIN nodes
                          /\ nodes[nodes[n].next_].prev_ = n
              /\ \A i, j \in DOMAIN ListRefs : ListRefs[i] = ListRefs[j] => i = j
              /\ ListRefs[Len(ListRefs)] = tail
              /\ BackRefs = Reversed(ListRefs)

C35_Witness ==
    /\ cls = "LRUCache" /\ capacity = 3 /\ exc = "none"
    /\ last.op = "get" /\ last.hit /\ last.was = "interior"
    /\ Len(ListRefs) = 3
    /\ ListRefs[3] = tail /\ nodes[tail].val = last.key
    /\ BackRefs = Reversed(ListRefs)

(* C36: both classes, capacity >= 1: a call removes a key from the cache   *)
(* only when it is a put of a key that is not stored, made on a cache      *)
(* with len(cache) == capacity, and such a put removes exactly one key; a  *)
(* put of a key that is not stored made with len(cache) < capacity removes *)
(* no key and raises len(cache) by exactly one.                            *)
C36_KeysLeaveOnlyByEviction ==
    [][ capacity >= 1 =>
          LET removed == DOMAIN dict \ DOMAIN dict'
              absent_put == IsPut(last') /\ last'.key \notin DOMAIN dict
          IN /\ removed # {} => absent_put /\ CacheLen = capacity
             /\ (absent_put /\ CacheLen = capacity) => Cardinality(removed) = 1
             /\ (absent_put /\ CacheLen < capacity) =>
                   /\ removed = {}
                   /\ CacheLen' = CacheLen + 1 ]_vars

C36_Witness ==
    /\ cls = "LRUCache" /\ capacity = 3 /\ exc = "none"
    /\ IsPut(last) /\ ~last.hit /\ ~last.full
    /\ CacheLen = 3
    /\ nodes[tail].val = last.key

(* C37: both classes: the value stored for a key changes only by a put on  *)
(* that key.  A get, a put and an eviction leave the value of every other  *)
(* key that stays in the cache as it was, a get leaves the value of its    *)
(* own key as it was, a put stores its value, and a get of a stored key    *)
(* returns the stored value: so get(j) returns the value of the latest     *)
(* put(j, .) while j has not been evicted since.                           *)
C37_ValueChangesOnlyByPut ==
    [][ LET k == last'.key
        IN /\ \A j \in DOMAIN dict \cap DOMAIN dict' :
                 (j # k \/ last'.op = "get") => dict'[j][1] = dict[j][1]
           /\ (IsPut(last') /\ k \in DOMAIN dict') => dict'[k][1] = last'.value
           /\ (last'.op = "get" /\ k \in DOMAIN dict /\ exc' = "none") =>
                 ret' = dict[k][1] ]_vars

C37_Witness ==
    /\ cls = "LFUCache" /\ capacity = 2 /\ exc = "none"
    /\ last.op = "get" /\ last.hit
    /\ CacheLen = 2
    /\ ret = 2
    /\ \E j \in DOMAIN dict : j # last.key /\ dict[j][1] = 1 /\ dict[j][2] = 2
    /\ dict[last.key][2] = 3

(* ---- runs of calls ---- *)

(* The calls of the two caches once more, with a record of the calls made  *)
(* so far kept in ref.  For an LRUCache:                                   *)
(*   age[k]    the puts of keys that were not stored, made since the last  *)
(*             access (put, or get that found it) of the stored key k;     *)
(*   quiet[k]  no other stored key was accessed since the last access of k;*)
(*   gone      the key the last call evicted (None: no key), the place     *)
(*             nth of that call among the puts counted by age, and quiet   *)
(*             of the key when it left.                                    *)
(* For an LFUCache, a run is a row of puts of pairwise different keys that *)
(* were not stored, that started on a full cache whose usage counts were   *)
(* all >= 2, with no other call in between:                                *)
(*   run       the puts of the run made so far (0: no run);                *)
(*   puts      their keys;                                                 *)
(*   base      the keys stored when the run started;                       *)
(*   front     the first key of the bucket of min_freq at that time;       *)
(*   evicted   the keys the last call removed.                             *)
NoCalls ==
    [age |-> <<>>, quiet |-> <<>>,
     gone |-> [key |-> None, nth |-> 0, quiet |-> TRUE],
     run |-> 0, puts |-> <<>>, base |-> {}, front |-> None, evicted |-> {}]

Recorded(key, is_put) ==
    LET hit == key \in DOMAIN dict
        absent_put == is_put /\ ~hit
        evicted == DOMAIN dict \ DOMAIN dict'
        lru == cls = "LRUCache"
        starts == /\ CacheLen = capacity
                  /\ capacity >= 2
                  /\ \A k \in DOMAIN dict : dict[k][2] >= 2
        goes_on == ref.run > 0 /\ key \notin Range(ref.puts)
    IN [age |-> IF lru
                THEN [k \in DOMAIN dict' |->
                        IF k = key THEN 0
                        ELSE IF absent_put THEN ref.age[k] + 1 ELSE ref.age[k]]
                ELSE <<>>,
        quiet |-> IF lru
                  THEN [k \in DOMAIN dict' |->
                          IF k = key THEN TRUE
                          ELSE IF hit THEN FALSE ELSE ref.quiet[k]]
                  ELSE <<>>,
        gone |-> IF lru /\ evicted # {}
                 THEN LET v == CHOOSE v \in evicted : TRUE
                      IN [key |-> v, nth |-> ref.age[v] + 1, quiet |-> ref.quiet[v]]
                 ELSE NoCalls.gone,
        run |-> IF lru \/ ~absent_put THEN 0
                ELSE IF goes_on THEN ref.run + 1
                ELSE IF starts THEN 1 ELSE 0,
        puts |-> IF lru \/ ~absent_put THEN <<>>
                 ELSE IF goes_on THEN Append(ref.puts, key)
                 ELSE IF starts THEN <<key>> ELSE <<>>,
        base |-> IF lru \/ ~absent_put THEN {}
                 ELSE IF goes_on THEN ref.base
                 ELSE IF starts THEN DOMAIN dict ELSE {},
        front |-> IF lru \/ ~absent_put THEN None
                  ELSE IF goes_on THEN ref.front
                  ELSE IF starts THEN Head(freq_dict[min_freq]) ELSE None,
        evicted |-> IF lru THEN {} ELSE evicted]

RunsFrame == UNCHANGED <<cls, capacity, deque, heap, bit, seg, later>>

Runs_LRU_Get(key) ==
    /\ cls = "LRUCache"
    /\ exc = "none"
    /\ Commit(LRUCache_get(Self, key))
    /\ last' = Call("get", key, None)
    /\ Accessed(key \in DOMAIN dict, key)
    /\ ref' = Recorded(key, FALSE)
    /\ RunsFrame

Runs_LRU_Put(key, value) ==
    /\ cls = "LRUCache"
    /\ exc = "none"
    /\ Commit(LRUCache_put(Self, key, value))
    /\ last' = Call("put", key, value)
    /\ Accessed(TRUE, key)
    /\ ref' = Recorded(key, TRUE)
    /\ RunsFrame

Runs_LFU_Get(key) ==
    /\ cls = "LFUCache"
    /\ exc = "none"
    /\ CountBelowMax(key)
    /\ Commit(LFUCache_get(Self, key))
    /\ last' = Call("get", key, None)
    /\ Accessed(key \in DOMAIN dict, key)
    /\ ref' = Recorded(key, FALSE)
    /\ RunsFrame

Runs_LFU_Put(key, value) ==
    /\ cls = "LFUCache"
    /\ exc = "none"
    /\ CountBelowMax(key)
    /\ Commit(LFUCache_put(Self, key, value))
    /\ last' = Call("put", key, value)
    /\ Accessed(TRUE, key)
    /\ ref' = Recorded(key, TRUE)
    /\ RunsFrame

(* The caches of capacity >= 1, before their first call.                   *)
InitRuns ==
    /\ cls \in {"LRUCache", "LFUCache"}
    /\ capacity \in {c \in Capacities(cls) : c >= 1}
    /\ dict = <<>>
    /\ head = None
    /\ tail = None
    /\ nodes = <<>>
    /\ freq_dict = <<>>
    /\ min_freq = None
    /\ ret = None
    /\ exc = "none"
    /\ last = [op |-> "__init__", key |-> None, value |-> None, hit |-> FALSE, full |-> FALSE,
               was |-> "absent"]
    /\ recency = <<>>
    /\ deque = None
    /\ heap = None
    /\ bit = None
    /\ seg = None
    /\ NoLater
    /\ ref = NoCalls

(* The values put: one value, since neither class reads the value stored   *)
(* when it chooses the key to evict.                                       *)
Runs_Vals == {1}

NextRuns ==
    \/ \E key \in LRU_Keys : Runs_LRU_Get(key)
    \/ \E key \in LRU_Keys, value \in Runs_Vals : Runs_LRU_Put(key, value)
    \/ \E key \in LFU_Keys : Runs_LFU_Get(key)
    \/ \E key \in LFU_Keys, value \in Runs_Vals : Runs_LFU_Put(key, value)

SpecRuns == InitRuns /\ [][NextRuns]_vars

(* C38 as stated: LRUCache of capacity c >= 1: a key that was just put or  *)
(* found by get stays stored through the next c - 1 puts of keys that are  *)
(* not stored and is evicted by the c-th, whatever other calls are made in *)
(* between, as long as none of them accesses the key; an access to the key *)
(* restarts the count.                                                     *)
C38_LRUEvictedByCthPut ==
    (cls = "LRUCache" /\ capacity >= 1) =>
        /\ \A k \in DOMAIN dict : ref.age[k] <= capacity - 1
        /\ ref.gone.key # None => ref.gone.nth = capacity

(* C38: LRUCache of capacity c >= 1: a key that was just put or found by   *)
(* get stays stored through the next c - 1 puts of keys that are not       *)
(* stored and is evicted by the c-th, provided that no stored key (the key *)
(* itself or another one) is accessed in between; an access to the key     *)
(* restarts the count.                                                     *)
C38_LRUEvictedByCthPutQuiet ==
    (cls = "LRUCache" /\ capacity >= 1) =>
        /\ \A k \in DOMAIN dict : ref.age[k] <= capacity - 1
        /\ (ref.gone.key # None /\ ref.gone.quiet) => ref.gone.nth = capacity

C38_Witness ==
    /\ cls = "LRUCache" /\ capacity = 3 /\ exc = "none"
    /\ IsPut(last) /\ ~last.hit /\ last.full
    /\ ref.gone.key # None /\ ref.gone.quiet /\ ref.gone.nth = 3
    /\ \E k \in DOMAIN dict : ref.age[k] = 2 /\ ref.quiet[k]

(* C39: LFUCache of capacity >= 2: in a run of puts of pairwise different  *)
(* keys that are not stored, started on a full cache whose usage counts    *)
(* are all >= 2 and with no get and no put of a stored key in between, the *)
(* first put evicts the first key of the bucket of min_freq, every later   *)
(* put evicts exactly the key that the put before it inserted, and the     *)
(* other keys stored before the run stay stored.                           *)
C39_LFURunEvictsNewest ==
    (cls = "LFUCache" /\ capacity >= 2 /\ ref.run >= 1) =>
        /\ exc = "none"
        /\ ref.run = 1 => ref.evicted = {ref.front}
        /\ ref.run >= 2 => ref.evicted = {ref.puts[ref.run - 1]}
        /\ ref.base \ {ref.front} \subseteq DOMAIN dict
        /\ ref.puts[ref.run] \in DOMAIN dict

C39_Witness ==
    /\ cls = "LFUCache" /\ capacity = 2 /\ exc = "none"
    /\ ref.run = 2
    /\ ref.evicted = {ref.puts[1]}
    /\ ref.puts[2] = ref.front
    /\ \E k \in ref.base : k # ref.front /\ k \in DOMAIN dict /\ dict[k][2] = 3

====
